---------------------------- MODULE Spec2Model ----------------------------
(***************************************************************************)
(* pdf-to-xls-vision: the extraction-path selector (converter.py), the     *)
(* page loop of the vision extractor (table_extraction.py), the batch loop *)
(* and the parenthesis repair passes (data_cleaning.py); the validator      *)
(* (validation.py), the quality heuristics (quality_check.py), the roll-up  *)
(* ranges (excel_writer.py) and the command line (pdf_to_xls_cli.py), each  *)
(* under a specification of its own.                                        *)
(*                                                                         *)
(* A cell is a sequence of one-character strings, or NaN (pandas' missing  *)
(* value).  A table row is a sequence of cells.  Pass A works cell by cell *)
(* and Pass B row by row, never across rows, so one row stands for a table.*)
(***************************************************************************)
EXTENDS Integers, Sequences, FiniteSets, TLC

VARIABLES
    \* ---- repair engine (data_cleaning.py) ----
    input,      \* the row as it was handed to the first pass
    cells,      \* the row being repaired (the DataFrame, mutated in place)
    schedule,   \* the passes that will be called, in order
    done,       \* number of passes that have returned
    changed,    \* the `changed` flag of Pass B's while loop
    sweeps,     \* sweeps made by the running call of Pass B
    snaps,      \* the row as each finished pass returned it
    warned,     \* history: the calls (by position) that ended in `except Exception`
    \* ---- batch_convert_directory (converter.py) ----
    caller,         \* "direct": convert_pdf_to_excel called on its own; "batch"
    batch,          \* "none" | "loop" | "returned" | "raised"
    nFiles,         \* len(all_files)
    fileIdx,        \* files whose loop body has finished
    success_list,   \* indices of the files appended to success_list
    failed_list,    \* indices of the files appended to failed_list
    outcomes,       \* history: how the conversion of each file ended
    \* ---- convert_pdf_to_excel (converter.py) ----
    force_vision,   \* the force_vision argument
    keyAvail,       \* an api_key argument or ANTHROPIC_API_KEY is there
    save_every,     \* the save_every argument
    pc,             \* where the running conversion is
    kind,           \* "pdf" | "image": is_image_file(pdf_path)
    is_image_based, \* what pdf_is_image_based returned
    tables,         \* the local variable `tables`
    quality_issues_detected,
    calls,          \* history: collaborators invoked by this conversion
    structural,     \* history: what the structural extractor returned
    finalSet,       \* history: the table set tested at `if not tables`
    result,         \* how the conversion ended
    \* ---- extract_table_with_claude_vision (table_extraction.py) ----
    num_pages,
    page_num,       \* pages the loop has gone through
    vtables,        \* the extractor's own list `tables`
    pageLog,        \* history: what happened on each page
    saves,          \* history: page numbers at which progress was saved
    \* ---- validate_extracted_data (validation.py) ----
    pdf_text,       \* page.extract_text() of the source PDF
    table_cells,    \* the cells of the extracted tables, in the order scanned
    report,         \* the report the validator returned
    \* ---- detect_quality_issues (quality_check.py) ----
    df,             \* the table handed to the heuristics
    issues,         \* the issue list they returned
    \* ---- identify_rollup_rows, add_rollup_formulas (excel_writer.py) ----
    columns,        \* df.columns, the column names from left to right
    row_type,       \* the Row_Type cell of each row
    labels,         \* the first-column cell of each row
    numeric_cols,   \* the columns found to hold numbers
    rollup_rows,    \* what identify_rollup_rows returned
    ranges,         \* history: the detail range found for each roll-up row
    formulas,       \* the SUM formulas written to the worksheet
    rollup_step,    \* "none" | "identify" | "numeric" | "ranges" | "written"
    \* ---- main (pdf_to_xls_cli.py) ----
    cli,            \* "none" | "start" | "path_ok" | "key_ok" | "running" | "exited"
    input_path,     \* "missing" | "file" | "dir" | "other"
    exit_status,    \* -1 while the process runs
    \* ---- the reply of the vision model (table_extraction.py 136-142) ----
    reply,          \* message.content[0].text, line by line
    csv_content,    \* the lines handed to pd.read_csv
    fence           \* "none" | "reply" | "cleaned"

repairVars == <<input, cells, schedule, done, changed, sweeps, snaps, warned>>

batchVars == <<caller, batch, nFiles, fileIdx, success_list, failed_list, outcomes>>

convertVars == <<force_vision, keyAvail, save_every, pc, kind, is_image_based, tables,
                 quality_issues_detected, calls, structural, finalSet, result>>

visionVars == <<num_pages, page_num, vtables, pageLog, saves>>

pipelineVars == <<batchVars, convertVars, visionVars>>

validationVars == <<pdf_text, table_cells, report>>

qualityVars == <<df, issues>>

rollupVars == <<columns, row_type, labels, numeric_cols, rollup_rows, ranges, formulas,
               rollup_step>>

cliVars == <<cli, input_path, exit_status>>

fenceVars == <<reply, csv_content, fence>>

\* the components that are checked on their own, and the command line
unitVars == <<validationVars, qualityVars, rollupVars, cliVars, fenceVars>>

libraryVars == <<repairVars, unitVars>>

vars == <<repairVars, pipelineVars, unitVars>>

-----------------------------------------------------------------------------
(* Bounds of the model *)

MaxCols == 2
MaxChars == 3
MaxPages == 2
MaxFiles == 2
MaxSaveEvery == 2
MaxCascade == 3
MaxLines == 4

-----------------------------------------------------------------------------
(* Characters and cells *)

\* pandas' NaN / None: a value no string cell equals
NaN == <<"NaN">>

Alphabet == {"(", ")", "5", " ", "%"}

\* \s of the regular expressions and the characters str.strip() removes
IsSpace(c) == c = " "

\* the character class [\d,.-]
IsNumChar(c) == c \in {"0", "1", "2", "3", "4", "5", "6", "7", "8", "9", ",", ".", "-"}

\* the characters of s at the indices in K, in order
KeepIdx(s, K) ==
    LET F[i \in 0..Len(s)] ==
            IF i = 0 THEN <<>>
            ELSE IF i \in K THEN Append(F[i - 1], s[i]) ELSE F[i - 1]
    IN F[Len(s)]

\* str.strip()
Strip(s) ==
    LET ns == {i \in 1..Len(s) : ~IsSpace(s[i])}
    IN IF ns = {} THEN <<>>
       ELSE LET lo == CHOOSE i \in ns : \A j \in ns : i <= j
                hi == CHOOSE i \in ns : \A j \in ns : j <= i
            IN SubSeq(s, lo, hi)

StartsWith(s, c) == Len(s) > 0 /\ s[1] = c
EndsWith(s, c) == Len(s) > 0 /\ s[Len(s)] = c

\* re.sub(r'\(\s+', '(', val): drop each whitespace run that follows a '('
SubOpenSpace(s) ==
    KeepIdx(s, {i \in 1..Len(s) :
        ~(IsSpace(s[i]) /\ \E j \in 1..(i - 1) :
              s[j] = "(" /\ \A k \in (j + 1)..i : IsSpace(s[k]))})

\* re.sub(r'\s+\)', ')', val): drop each whitespace run that precedes a ')'
SubSpaceClose(s) ==
    KeepIdx(s, {i \in 1..Len(s) :
        ~(IsSpace(s[i]) /\ \E j \in (i + 1)..Len(s) :
              s[j] = ")" /\ \A k \in i..(j - 1) : IsSpace(s[k]))})

\* re.sub(r'\(+', '(', val): collapse each run of '(' to one
SubOpenRun(s) ==
    KeepIdx(s, {i \in 1..Len(s) : ~(s[i] = "(" /\ i > 1 /\ s[i - 1] = "(")})

\* re.search(r'[\d,.-]+$', val)
EndsNumeric(s) == Len(s) > 0 /\ IsNumChar(s[Len(s)])

\* re.match(r'^[\d,.-]+\)$', val)
IsNumberClose(s) ==
    /\ Len(s) >= 2
    /\ s[Len(s)] = ")"
    /\ \A i \in 1..(Len(s) - 1) : IsNumChar(s[i])

\* re.search(r'^([\d,.-]+)\)\($', s): <number>)(
IsNumberCloseOpen(s) ==
    /\ Len(s) >= 3
    /\ s[Len(s)] = "("
    /\ s[Len(s) - 1] = ")"
    /\ \A i \in 1..(Len(s) - 2) : IsNumChar(s[i])

\* match.group(1) of the pattern above
NumberOf(s) == SubSeq(s, 1, Len(s) - 2)


-----------------------------------------------------------------------------
(* Pass A: data_cleaning.py, _fix_cell_parens and clean_malformed_parentheses *)

\* Pattern 4: a cell that starts with '(' and lacks the closing ')'
FixMissingClose(v) ==
    IF StartsWith(v, "(") /\ ~EndsWith(v, ")") /\ EndsNumeric(v)
    THEN Append(v, ")") ELSE v

\* Pattern 5: an orphaned closing ')'
FixOrphanClose(v) ==
    IF EndsWith(v, ")") /\ ~StartsWith(v, "(") /\ IsNumberClose(v)
    THEN <<"(">> \o v ELSE v

\* _fix_cell_parens without Pattern 2 (the whitespace before ')' is kept)
fix_cell_parens_NoPattern2(value) ==
    FixOrphanClose(FixMissingClose(SubOpenRun(SubOpenSpace(Strip(value)))))

\* _fix_cell_parens on a string value
fix_cell_parens(value) ==
    FixOrphanClose(FixMissingClose(SubOpenRun(SubSpaceClose(SubOpenSpace(Strip(value))))))

\* clean_malformed_parentheses on one row: NaN cells are left alone
clean_malformed_parentheses(row) ==
    [c \in 1..Len(row) |-> IF row[c] = NaN THEN NaN ELSE fix_cell_parens(row[c])]

-----------------------------------------------------------------------------
(* Pass B: data_cleaning.py, clean_dataframe_parentheses *)

\* `curr_str if curr_str else None`
OrNone(s) == IF s = <<>> THEN NaN ELSE s

\* a next cell that pairs the incoming '(' with its number and drops the
\* trailing '(' in place of passing it on
ReceiveOpen_NoCascade(next_val) ==
    IF next_val # NaN
    THEN LET next_str == Strip(next_val)
         IN IF IsNumberCloseOpen(next_str)
            THEN <<"(">> \o NumberOf(next_str) \o <<")">>
            ELSE <<"(">> \o next_str
    ELSE <<"(">>

\* The next cell once the '(' of the current cell has been moved onto it
\* (lines 118-146).
ReceiveOpen(next_val) ==
    IF next_val # NaN
    THEN LET next_str == Strip(next_val)
         IN IF IsNumberCloseOpen(next_str)
            THEN <<"(">> \o NumberOf(next_str) \o <<")", "(">>
            ELSE IF EndsWith(next_str, ")") /\ ~StartsWith(next_str, "(")
            THEN <<"(">> \o next_str
            ELSE <<"(">> \o next_str
    ELSE <<"(">>

\* The body of `for col_idx in range(len(df.columns) - 1)` for one col_idx
\* (1-based here).  curr_val and next_val are read once, before either block,
\* so the second block tests the values the first block found.
ColumnStep(st, c) ==
    LET row == st.row
        curr_val == row[c]
        next_val == row[c + 1]
        moves == curr_val # NaN /\ EndsWith(Strip(curr_val), "(")
        afterFirst ==
            IF moves
            THEN LET curr_str == Strip(SubSeq(Strip(curr_val), 1, Len(Strip(curr_val)) - 1))
                 IN [st EXCEPT !.row = [row EXCEPT ![c] = OrNone(curr_str),
                                                    ![c + 1] = ReceiveOpen(next_val)],
                               !.changed = TRUE]
            ELSE st
        curr_str2 == IF curr_val # NaN THEN Strip(curr_val) ELSE <<>>
        orphan == /\ next_val # NaN
                  /\ IsNumberCloseOpen(Strip(next_val))
                  /\ ~EndsWith(curr_str2, "(")
    IN IF orphan
       THEN [afterFirst EXCEPT
                !.row = [afterFirst.row EXCEPT
                            ![c] = IF curr_str2 # <<>> THEN Append(curr_str2, ")") ELSE <<")">>,
                            ![c + 1] = <<"(">> \o NumberOf(Strip(next_val)) \o <<")", "(">>],
                !.changed = TRUE]
       ELSE afterFirst

\* One iteration of `while changed`: changed = False, then the scan of the
\* column pairs from left to right.
RECURSIVE ScanFrom(_, _)
ScanFrom(st, c) ==
    IF c > Len(st.row) - 1 THEN st ELSE ScanFrom(ColumnStep(st, c), c + 1)

\* a scan that starts at the second column pair (range(1, n - 1))
Sweep_FromSecondPair(row) == ScanFrom([row |-> row, changed |-> FALSE], 2)

\* a sweep that always reports a change
Sweep_AlwaysChanged(row) ==
    [row |-> ScanFrom([row |-> row, changed |-> FALSE], 1).row, changed |-> TRUE]

Sweep(row) == ScanFrom([row |-> row, changed |-> FALSE], 1)

\* re.sub(r'(%)\s*\($', r'\1', str(x).strip())
TrimPercentOpen(x) ==
    LET s == Strip(x)
        hits == {p \in 1..Len(s) :
                    /\ s[p] = "%"
                    /\ p < Len(s)
                    /\ s[Len(s)] = "("
                    /\ \A k \in (p + 1)..(Len(s) - 1) : IsSpace(s[k])}
    IN IF hits = {} THEN s
       ELSE SubSeq(s, 1, CHOOSE p \in hits : \A q \in hits : p <= q)

\* The second pass over every cell (lines 165-171)
PercentCleanup(row) ==
    [c \in 1..Len(row) |-> IF row[c] = NaN THEN NaN ELSE TrimPercentOpen(row[c])]

\* clean_dataframe_parentheses as a function of one row: sweep until a sweep
\* changes nothing, then the percentage cleanup.
RECURSIVE SweepToFixpoint(_)
SweepToFixpoint(row) ==
    LET st == Sweep(row)
    IN IF st.changed THEN SweepToFixpoint(st.row) ELSE st.row

clean_dataframe_parentheses(row) == PercentCleanup(SweepToFixpoint(row))

-----------------------------------------------------------------------------
(* The inputs of the repair engine *)

\* all strings of exactly k characters
StringsOfLen(k) == [1..k -> Alphabet]

\* a cell of k characters; pandas.read_csv reads an empty field as NaN
CellsOfLen(k) == IF k = 0 THEN {NaN} ELSE StringsOfLen(k)

CellLen(c) == IF c = NaN THEN 0 ELSE Len(c)

\* rows of n cells holding at most `budget` characters in all
RECURSIVE RowsOf(_, _)
RowsOf(n, budget) ==
    IF n = 0 THEN {<<>>}
    ELSE UNION {UNION {{<<c>> \o r : r \in RowsOf(n - 1, budget - k)} :
                           c \in CellsOfLen(k)} : k \in 0..budget}

\* df.dropna(how='all') has removed the rows that hold no value at all
InputRows ==
    {r \in UNION {RowsOf(n, MaxChars) : n \in 1..MaxCols} :
        \E c \in 1..Len(r) : r[c] # NaN}

\* table_extraction.py runs clean_dataframe_parentheses, then
\* clean_malformed_parentheses, on every parsed table
EngineOrder == <<"B", "A">>

\* the order the design document gives: Pass A, then Pass B
DocumentOrder == <<"A", "B">>

\* the engine run twice over the same table, in either order
Schedules == {EngineOrder \o EngineOrder, DocumentOrder \o DocumentOrder}

-----------------------------------------------------------------------------
(* The repair engine as a state machine *)

\* the pipeline at rest, for the specification of the repair engine alone
PipelineIdle ==
    /\ caller = "direct" /\ batch = "none" /\ nFiles = 0 /\ fileIdx = 0
    /\ success_list = <<>> /\ failed_list = <<>> /\ outcomes = <<>>
    /\ force_vision = FALSE /\ keyAvail = FALSE /\ save_every = 0
    /\ pc = "idle" /\ kind = "pdf" /\ is_image_based = FALSE
    /\ tables = <<>> /\ quality_issues_detected = FALSE /\ calls = <<>>
    /\ structural = [state |-> "not_called", n |-> 0, flagged |-> 0]
    /\ finalSet = "unset" /\ result = "pending"
    /\ num_pages = 0 /\ page_num = 0 /\ vtables = <<>> /\ pageLog = <<>> /\ saves = <<>>

\* an empty report: the validator has not run
NoReport ==
    [status |-> "none", total_pdf_numbers |-> 0, total_table_numbers |-> 0,
     matches |-> 0, accuracy_percent |-> 0,
     missing_in_tables |-> <<>>, extra_in_tables |-> <<>>]

ValidationIdle == pdf_text = <<>> /\ table_cells = <<>> /\ report = NoReport

\* a table with no rows: nothing was handed to the heuristics
NoTable == [num_cols |-> 0, groups |-> <<>>]

QualityIdle == df = NoTable /\ issues = <<>>

RollupIdle ==
    /\ columns = <<>> /\ row_type = <<>> /\ labels = <<>> /\ numeric_cols = {}
    /\ rollup_rows = <<>> /\ ranges = <<>> /\ formulas = {} /\ rollup_step = "none"

\* the functions are called as a library, not from the command line
CliIdle == cli = "none" /\ input_path = "file" /\ exit_status = -1

\* no reply is being looked at
FenceIdle == reply = <<>> /\ csv_content = <<>> /\ fence = "none"

UnitIdle == ValidationIdle /\ QualityIdle /\ RollupIdle /\ CliIdle /\ FenceIdle

RepairInit ==
    /\ PipelineIdle
    /\ UnitIdle
    /\ input \in InputRows
    /\ cells = input
    /\ schedule \in Schedules
    /\ done = 0
    /\ changed = TRUE
    /\ sweeps = 0
    /\ snaps = <<>>
    /\ warned = {}

NextPass == IF done < Len(schedule) THEN schedule[done + 1] ELSE "none"

\* a call of clean_malformed_parentheses
PassA ==
    /\ NextPass = "A"
    /\ cells' = clean_malformed_parentheses(cells)
    /\ done' = done + 1
    /\ snaps' = Append(snaps, cells')
    /\ UNCHANGED <<input, schedule, changed, sweeps, warned, pipelineVars, unitVars>>

\* the model follows the while loop for this many iterations at most: one
\* for every character a cell can hold and one for the cell, in each column,
\* and the last one that changes nothing
MaxSweeps == MaxCols * (MaxChars + 1) + 1

\* one iteration of the while loop of clean_dataframe_parentheses
PassBSweep ==
    /\ NextPass = "B"
    /\ changed
    /\ sweeps < MaxSweeps
    /\ LET st == Sweep(cells)
       IN /\ cells' = st.row
          /\ changed' = st.changed
    /\ sweeps' = sweeps + 1
    /\ UNCHANGED <<input, schedule, done, snaps, warned, pipelineVars, unitVars>>

\* the loop has ended: the percentage cleanup, and the call returns
PassBReturn ==
    /\ NextPass = "B"
    /\ ~changed
    /\ cells' = PercentCleanup(cells)
    /\ done' = done + 1
    /\ snaps' = Append(snaps, cells')
    /\ changed' = TRUE
    /\ sweeps' = 0
    /\ UNCHANGED <<input, schedule, warned, pipelineVars, unitVars>>

RepairNext == PassA \/ PassBSweep \/ PassBReturn

SpecRepair == RepairInit /\ [][RepairNext]_vars

\* the part of PassBSweep that decides whether it can be taken: the while
\* test holds, and the sweep is counted
SweepDue == NextPass = "B" /\ changed /\ sweeps < MaxSweeps /\ sweeps' = sweeps + 1

\* the interpreter goes on running the while loop until its test fails
SpecRepairLive == SpecRepair /\ WF_sweeps(SweepDue)

-----------------------------------------------------------------------------
(* A pass that raises.  Both passes write into the DataFrame they were       *)
(* handed (`df.at[idx, col] = ...` at data_cleaning.py 128-161, `df[col] =   *)
(* ...` at 67) and neither works on a copy, so what a raising call has       *)
(* written stays in the caller's table; the caller (table_extraction.py      *)
(* 172-182) catches the exception, prints a warning and goes on to the next  *)
(* call.  The statement at which a call raises is not determined by the      *)
(* row: the model lets it be any of the writes.                              *)

\* the scan of the column pairs first..last
RECURSIVE ScanRange(_, _, _)
ScanRange(st, first, last) ==
    IF first > last THEN st ELSE ScanRange(ColumnStep(st, first), first + 1, last)

\* the column pair c writes: one of the two blocks of the loop body applies
Writes(row, c) == ColumnStep([row |-> row, changed |-> FALSE], c).changed

\* the row when the body for column pair c has assigned `written` of its two
\* cells (curr_col is assigned first, next_col second)
WrittenCells(row, c, written) ==
    LET after == ColumnStep([row |-> row, changed |-> FALSE], c).row
    IN [k \in 1..Len(row) |->
           IF (k = c /\ written >= 1) \/ (k = c + 1 /\ written >= 2)
           THEN after[k] ELSE row[k]]

\* a call of clean_dataframe_parentheses raises at one of the assignments of
\* column pair c, in the sweep that would come next
PassBRaise ==
    /\ NextPass = "B"
    /\ changed
    /\ sweeps < MaxSweeps
    /\ \E c \in 1..(Len(cells) - 1), written \in 0..1 :
          LET st == ScanRange([row |-> cells, changed |-> FALSE], 1, c - 1)
          IN /\ Writes(st.row, c)
             /\ cells' = WrittenCells(st.row, c, written)
    /\ done' = done + 1
    /\ snaps' = Append(snaps, cells')
    /\ warned' = warned \cup {done + 1}
    /\ changed' = TRUE
    /\ sweeps' = 0
    /\ UNCHANGED <<input, schedule, pipelineVars, unitVars>>

\* a call of clean_malformed_parentheses raises while column c + 1 is
\* mapped: the columns before it have been replaced (67)
PassARaise ==
    /\ NextPass = "A"
    /\ \E c \in 0..(Len(cells) - 1) :
          cells' = [k \in 1..Len(cells) |->
                       IF k <= c THEN clean_malformed_parentheses(cells)[k]
                       ELSE cells[k]]
    /\ done' = done + 1
    /\ snaps' = Append(snaps, cells')
    /\ warned' = warned \cup {done + 1}
    /\ UNCHANGED <<input, schedule, changed, sweeps, pipelineVars, unitVars>>

-----------------------------------------------------------------------------
(* Cascades: the rows of the docstring of clean_dataframe_parentheses        *)
(* (data_cleaning.py 75-94), where every '(' has slipped to the end of the   *)
(* cell before the one it opens.                                             *)

\* what stands before the first '(': a label or a number
CascadeLabels ==
    {<<"X">>, <<"1", "0", ",", "9", "4", "7">>, <<"N", "e", "t">>, <<"5", "%">>}

\* the numbers of the cascade
CascadeNumbers == {<<"3", ",", "0", "9", "4">>, <<"5", "7", "8">>, <<"1", "7", "3">>,
                   <<"-", ".", "5">>}

\* ["X (", "n1)(", ..., "n(k-1))(", "nk"], sep standing between X and '('
CascadeRow(x, sep, ns) ==
    <<x \o sep \o <<"(">>>>
      \o [i \in 1..(Len(ns) - 1) |-> ns[i] \o <<")", "(">>]
      \o <<ns[Len(ns)]>>

CascadeInit ==
    /\ PipelineIdle
    /\ UnitIdle
    /\ \E x \in CascadeLabels, sep \in {<<>>, <<" ">>}, k \in 1..MaxCascade :
          \E ns \in [1..k -> CascadeNumbers] : input = CascadeRow(x, sep, ns)
    /\ cells = input
    /\ schedule = EngineOrder
    /\ done = 0
    /\ changed = TRUE
    /\ sweeps = 0
    /\ snaps = <<>>
    /\ warned = {}

SpecCascade == CascadeInit /\ [][RepairNext]_vars

RepairFaultNext == PassA \/ PassBSweep \/ PassBReturn \/ PassBRaise \/ PassARaise

SpecRepairFault == RepairInit /\ [][RepairFaultNext]_vars


-----------------------------------------------------------------------------
(* Tables as the path selector sees them: where a table came from, its page, *)
(* whether detect_quality_issues returned issues for it, and the repair      *)
(* passes it was handed to.                                                  *)

StructuralTable(p, flagged) ==
    [origin |-> "structural", page |-> p, flagged |-> flagged, passes |-> <<>>]

VisionTable(p, passes) ==
    [origin |-> "vision", page |-> p, flagged |-> FALSE, passes |-> passes]

\* the same block without the call of clean_malformed_parentheses
RepairCalls_CascadeOnly(raisedB, raisedA) ==
    <<[pass |-> "B", raised |-> raisedB]>>

\* the two calls in the order the specification lists the passes
RepairCalls_DocumentOrder(raisedB, raisedA) ==
    <<[pass |-> "A", raised |-> raisedA], [pass |-> "B", raised |-> raisedB]>>

\* table_extraction.py 170-182: clean_dataframe_parentheses, then
\* clean_malformed_parentheses, each inside its own try/except
RepairCalls(raisedB, raisedA) ==
    <<[pass |-> "B", raised |-> raisedB], [pass |-> "A", raised |-> raisedA]>>

\* save_every=10 in the signature of convert_pdf_to_excel
DefaultSaveEvery == 10

-----------------------------------------------------------------------------
(* extract_tables_from_text_pdf, table_extraction.py 403-475 *)

\* What one page yields: no table, a table whose DataFrame cannot be built
\* (caught at 467), an empty DataFrame, a table without issues, one with issues.
PageYields == {"none", "error", "empty", "clean", "issues"}

PdfPages == UNION {[1..n -> PageYields] : n \in 1..MaxPages}

\* tables.append(...) at 462 for every non-empty DataFrame, flagged or not
TextTables(yields) ==
    LET F[i \in 0..Len(yields)] ==
            IF i = 0 THEN <<>>
            ELSE IF yields[i] \in {"clean", "issues"}
                 THEN Append(F[i - 1], StructuralTable(i, yields[i] = "issues"))
                 ELSE F[i - 1]
    IN F[Len(yields)]

\* pages_with_issues.append(page_num) at 447
pages_with_issues(yields) == {i \in 1..Len(yields) : yields[i] = "issues"}

-----------------------------------------------------------------------------
(* convert_pdf_to_excel, converter.py 30-165 *)

\* what a step inside one conversion leaves alone: the repair engine's state,
\* the batch loop, and the arguments of the call
callVars == <<libraryVars, batchVars, force_vision, keyAvail, save_every, kind>>

Invoke(name) == calls' = Append(calls, name)

\* an exception leaves the function (161-165 re-raise it)
Raise(exc) ==
    /\ result' = exc
    /\ pc' = "returned"

\* 60-63 and the entry of the try block
Call ==
    /\ pc = "idle"
    /\ result = "pending"
    /\ \/ caller = "direct" /\ fileIdx = 0
       \/ caller = "batch" /\ batch = "loop" /\ fileIdx < nFiles
    /\ \E k \in {"pdf", "image"}, exists \in BOOLEAN :
          /\ caller = "batch" => exists
          /\ kind' = k
          /\ IF exists
             THEN pc' = "route" /\ result' = "pending"
             ELSE Raise("FileNotFoundError")
    /\ is_image_based' = FALSE
    /\ tables' = <<>>
    /\ quality_issues_detected' = FALSE
    /\ calls' = <<>>
    /\ structural' = [state |-> "not_called", n |-> 0, flagged |-> 0]
    /\ finalSet' = "unset"
    /\ num_pages' = 0 /\ page_num' = 0 /\ vtables' = <<>> /\ pageLog' = <<>> /\ saves' = <<>>
    /\ UNCHANGED <<libraryVars, batchVars, force_vision, keyAvail, save_every>>

\* `if not api_key: api_key = get_api_key()`, then the branch's extractor
ToVision(next) ==
    IF keyAvail THEN pc' = next /\ result' = result ELSE Raise("ValueError")

\* 80-91: an image file goes to extract_table_from_image
RouteImage ==
    /\ pc = "route"
    /\ kind = "image"
    /\ ToVision("image")
    /\ UNCHANGED <<is_image_based, tables, quality_issues_detected, calls,
                   structural, finalSet, callVars, visionVars>>

\* the test without force_vision
TakesVisionPath_IgnoreForce(forced, imageBased) == imageBased

\* `if force_vision or is_image_based`
TakesVisionPath(forced, imageBased) == forced \/ imageBased

\* 92-114: a PDF is classified, then sent to vision or to text extraction
RoutePdf ==
    /\ pc = "route"
    /\ kind = "pdf"
    /\ \E b \in BOOLEAN :
          /\ is_image_based' = b
          /\ IF TakesVisionPath(force_vision, b)
             THEN ToVision("vision_open")
             ELSE pc' = "structural" /\ result' = result
    /\ UNCHANGED <<tables, quality_issues_detected, calls, structural, finalSet,
                   callVars, visionVars>>

\* 114: tables, quality_issues_detected = extract_tables_from_text_pdf(pdf_path)
Structural ==
    /\ pc = "structural"
    /\ Invoke("structural")
    /\ \/ \E yields \in PdfPages :
             /\ tables' = TextTables(yields)
             /\ quality_issues_detected' = (Cardinality(pages_with_issues(yields)) > 0)
             /\ structural' = [state |-> "returned",
                               n |-> Len(TextTables(yields)),
                               flagged |-> Cardinality({i \in 1..Len(TextTables(yields)) :
                                                           TextTables(yields)[i].flagged})]
             /\ pc' = "gate"
             /\ result' = result
       \/ \* pdfplumber.open fails: nothing in the function catches it
          /\ structural' = [state |-> "raised", n |-> 0, flagged |-> 0]
          /\ Raise("Exception")
          /\ UNCHANGED <<tables, quality_issues_detected>>
    /\ UNCHANGED <<is_image_based, finalSet, callVars, visionVars>>

\* the test without `or not tables`
NeedsRetry_IssuesOnly(detected, ts) == detected

\* `if quality_issues_detected or not tables`
NeedsRetry(detected, ts) == detected \/ ts = <<>>

\* 116-132: the automatic retry with the vision extractor
Gate ==
    /\ pc = "gate"
    /\ IF NeedsRetry(quality_issues_detected, tables)
       THEN ToVision("vision_open")
       ELSE pc' = "final" /\ result' = result
    /\ UNCHANGED <<is_image_based, tables, quality_issues_detected, calls,
                   structural, finalSet, callVars, visionVars>>

\* the same test never taken
ReturnsNone_Never(ts) == FALSE

\* 134-136: `if not tables: return None`
ReturnsNone(ts) == ts = <<>>

Final ==
    /\ pc = "final"
    /\ finalSet' = IF tables = <<>> THEN "empty" ELSE "nonempty"
    /\ IF ReturnsNone(tables)
       THEN result' = "None" /\ pc' = "returned"
       ELSE result' = result /\ pc' = "merge"
    /\ UNCHANGED <<is_image_based, tables, quality_issues_detected, calls, structural,
                   callVars, visionVars>>

\* 139: merge_continuation_tables folds a table that continues the one
\* before it into that table
MergeResults(ts) ==
    IF ts = <<>> THEN {<<>>}
    ELSE {KeepIdx(ts, K \cup {1}) : K \in SUBSET (1..Len(ts))}

Merge ==
    /\ pc = "merge"
    /\ Invoke("merge")
    /\ tables' \in MergeResults(tables)
    /\ pc' = IF kind = "pdf" THEN "validate" ELSE "write"
    /\ UNCHANGED <<is_image_based, quality_issues_detected, structural, finalSet, result,
                   callVars, visionVars>>

\* 142-156: validate_extracted_data; writing its report can fail
Validate ==
    /\ pc = "validate"
    /\ Invoke("validate")
    /\ \/ pc' = "write" /\ result' = result
       \/ Raise("Exception")
    /\ UNCHANGED <<is_image_based, tables, quality_issues_detected, structural, finalSet,
                   callVars, visionVars>>

\* 159: return create_excel_file(tables, output_path); wb.save can fail
Write ==
    /\ pc = "write"
    /\ Invoke("write")
    /\ \/ result' = "path" /\ pc' = "returned"
       \/ Raise("Exception")
    /\ UNCHANGED <<is_image_based, tables, quality_issues_detected, structural, finalSet,
                   callVars, visionVars>>

-----------------------------------------------------------------------------
(* extract_table_with_claude_vision, table_extraction.py 12-211 *)

\* 27-32: the call, `tables = []`, the PDF is opened
VisionOpen ==
    /\ pc = "vision_open"
    /\ Invoke("vision")
    /\ vtables' = <<>>
    /\ pageLog' = <<>>
    /\ saves' = <<>>
    /\ page_num' = 0
    /\ \/ \E n \in 1..MaxPages : num_pages' = n
       \/ num_pages' = 0    \* pdfplumber.open fails: 206-209, then `return tables`
    /\ pc' = "vision_loop"
    /\ UNCHANGED <<is_image_based, tables, quality_issues_detected, structural,
                   finalSet, result, callVars>>

\* What happens to one page: the rendering returns nothing (40-42), the API
\* call or the cleanup raises (198-200), the three CSV parsers fail (159-161),
\* the answer holds no table (193-196), or a DataFrame is parsed.
PageEvents == {"render_failed", "api_error", "parse_failed", "no_content", "table"}

Skipped == {"render_failed", "api_error", "parse_failed"}

\* `break` in place of `continue`
AfterSkip_Break(p, n) == n

\* `continue`: pages gone through once page p of n was skipped
AfterSkip(p, n) == p

\* 202-204: `if output_path and save_every > 0 and len(tables) > 0 and
\* len(tables) % save_every == 0`
SavesProgress(ts) == save_every > 0 /\ Len(ts) > 0 /\ Len(ts) % save_every = 0

\* the body of `for page_num in range(1, num_pages + 1)`
VisionPage ==
    /\ pc = "vision_loop"
    /\ page_num < num_pages
    /\ LET p == page_num + 1 IN
       \E ev \in PageEvents, raisedB \in BOOLEAN, raisedA \in BOOLEAN, kept \in BOOLEAN :
          \/ /\ ev \in Skipped
             /\ raisedB = FALSE /\ raisedA = FALSE /\ kept = FALSE
             /\ pageLog' = Append(pageLog, [page |-> p, event |-> ev])
             /\ page_num' = AfterSkip(p, num_pages)
             /\ UNCHANGED <<vtables, saves>>
          \/ /\ ev = "no_content"
             /\ raisedB = FALSE /\ raisedA = FALSE /\ kept = FALSE
             /\ pageLog' = Append(pageLog, [page |-> p, event |-> ev])
             /\ page_num' = p
             /\ saves' = IF SavesProgress(vtables) THEN Append(saves, p) ELSE saves
             /\ UNCHANGED vtables
          \/ /\ ev = "table"
             /\ ~kept => (raisedB = FALSE /\ raisedA = FALSE)
             /\ pageLog' = Append(pageLog,
                    [page |-> p, event |-> IF kept THEN "table" ELSE "no_content"])
             /\ vtables' = IF kept
                           THEN Append(vtables, VisionTable(p, RepairCalls(raisedB, raisedA)))
                           ELSE vtables
             /\ page_num' = p
             /\ saves' = IF SavesProgress(vtables') THEN Append(saves, p) ELSE saves
    /\ UNCHANGED <<libraryVars, batchVars, convertVars, num_pages>>

\* a run that goes back to text extraction when vision found nothing
AfterVision_RetryStructural(ts) == IF ts = <<>> THEN "structural" ELSE "final"

\* converter.py 110 and 132 fall through to `if not tables` at 134, whatever
\* the vision extractor returned
AfterVision(ts) == "final"

\* 211 `return tables`, assigned at converter.py 110 or 132
VisionReturn ==
    /\ pc = "vision_loop"
    /\ page_num >= num_pages
    /\ tables' = vtables
    /\ pc' = AfterVision(vtables)
    /\ UNCHANGED <<is_image_based, quality_issues_detected, calls, structural,
                   finalSet, result, callVars, visionVars>>

\* extract_table_from_image, table_extraction.py 214-400: one image, one call
ImageVision ==
    /\ pc = "image"
    /\ Invoke("image_vision")
    /\ \/ tables' = <<>>
       \/ \E raisedB \in BOOLEAN, raisedA \in BOOLEAN :
             tables' = <<VisionTable(1, RepairCalls(raisedB, raisedA))>>
    /\ pc' = "final"
    /\ UNCHANGED <<is_image_based, quality_issues_detected, structural, finalSet,
                   result, callVars, visionVars>>

-----------------------------------------------------------------------------
(* batch_convert_directory, converter.py 168-262 *)

\* 195-225: the directory is searched
BatchScan ==
    /\ caller = "batch"
    /\ batch = "scan"
    /\ \/ batch' = "raised" /\ nFiles' = 0             \* FileNotFoundError at 198
       \/ batch' = "returned" /\ nFiles' = 0           \* no files: 220-222
       \/ \E n \in 1..MaxFiles : batch' = "loop" /\ nFiles' = n
    /\ UNCHANGED <<caller, fileIdx, success_list, failed_list, outcomes,
                   libraryVars, convertVars, visionVars>>

\* a loop whose except clause forgets the failed file
Recorded_DropFailure(res, lists, i) ==
    IF res = "path" THEN [lists EXCEPT !.success = Append(@, i)] ELSE lists

\* a loop that lists a file without tables as failed
Recorded_NoneFails(res, lists, i) ==
    IF res = "path" THEN [lists EXCEPT !.success = Append(@, i)]
    ELSE [lists EXCEPT !.failed = Append(@, i)]

\* 245-252: `if result: success_list.append`, `except Exception: failed_list.append`
Recorded(res, lists, i) ==
    IF res = "path" THEN [lists EXCEPT !.success = Append(@, i)]
    ELSE IF res = "None" THEN lists
    ELSE [lists EXCEPT !.failed = Append(@, i)]

BatchRecord ==
    /\ caller = "batch"
    /\ batch = "loop"
    /\ pc = "returned"
    /\ LET lists == Recorded(result, [success |-> success_list, failed |-> failed_list],
                             fileIdx + 1)
       IN /\ success_list' = lists.success
          /\ failed_list' = lists.failed
    /\ outcomes' = Append(outcomes, result)
    /\ fileIdx' = fileIdx + 1
    /\ pc' = "idle"
    /\ result' = "pending"
    /\ UNCHANGED <<caller, batch, nFiles, force_vision, keyAvail, save_every, kind,
                   is_image_based, tables, quality_issues_detected, calls, structural,
                   finalSet, libraryVars, visionVars>>

\* 254-262
BatchReturn ==
    /\ caller = "batch"
    /\ batch = "loop"
    /\ pc = "idle"
    /\ fileIdx = nFiles
    /\ batch' = "returned"
    /\ UNCHANGED <<caller, nFiles, fileIdx, success_list, failed_list, outcomes,
                   libraryVars, convertVars, visionVars>>

-----------------------------------------------------------------------------
(* The pipeline as a state machine *)

RepairIdle ==
    /\ input = <<>> /\ cells = <<>> /\ schedule = <<>> /\ done = 0
    /\ changed = TRUE /\ sweeps = 0 /\ snaps = <<>> /\ warned = {}

Init ==
    /\ RepairIdle
    /\ UnitIdle
    /\ caller \in {"direct", "batch"}
    /\ batch = IF caller = "batch" THEN "scan" ELSE "none"
    /\ nFiles = IF caller = "batch" THEN 0 ELSE 1
    /\ fileIdx = 0
    /\ success_list = <<>> /\ failed_list = <<>> /\ outcomes = <<>>
    /\ force_vision \in BOOLEAN
    /\ keyAvail \in BOOLEAN
    /\ save_every \in IF caller = "batch" THEN {DefaultSaveEvery}
                      ELSE (0..MaxSaveEvery) \cup {DefaultSaveEvery}
    /\ pc = "idle" /\ kind = "pdf" /\ is_image_based = FALSE
    /\ tables = <<>> /\ quality_issues_detected = FALSE /\ calls = <<>>
    /\ structural = [state |-> "not_called", n |-> 0, flagged |-> 0]
    /\ finalSet = "unset" /\ result = "pending"
    /\ num_pages = 0 /\ page_num = 0 /\ vtables = <<>> /\ pageLog = <<>> /\ saves = <<>>

Next ==
    \/ BatchScan \/ Call \/ RouteImage \/ RoutePdf
    \/ Structural \/ Gate
    \/ VisionOpen \/ VisionPage \/ VisionReturn \/ ImageVision
    \/ Final \/ Merge \/ Validate \/ Write
    \/ BatchRecord \/ BatchReturn

Spec == Init /\ [][Next]_vars

-----------------------------------------------------------------------------
(* validation.py: the numbers of the source text against those of the tables *)

MaxTextLen == 3
MaxCells == 2

IsDigit(c) == c \in {"0", "1", "2", "3", "4", "5", "6", "7", "8", "9"}

\* the character of s at i, "" past the end
At(s, i) == IF i >= 1 /\ i <= Len(s) THEN s[i] ELSE ""

\* how many digits of s start at i, counting at most `most`
DigitRun(s, i, most) ==
    CHOOSE k \in 0..most :
        /\ \A j \in 0..(k - 1) : IsDigit(At(s, i + j))
        /\ k = most \/ ~IsDigit(At(s, i + k))

\* (?:,\d{3})* from i: the index that follows the last group
RECURSIVE ThousandsFrom(_, _)
ThousandsFrom(s, i) ==
    IF At(s, i) = "," /\ DigitRun(s, i + 1, 3) = 3 THEN ThousandsFrom(s, i + 4) ELSE i

\* one match of \$?\(?\d{1,3}(?:,\d{3})*(?:\.\d+)?\)?%? that starts at i: the
\* index that follows it, 0 when there is none.  Every quantifier is greedy
\* and nothing that follows one is mandatory, so the first try is the match.
MatchEnd(s, i) ==
    LET a == IF At(s, i) = "$" THEN i + 1 ELSE i
        b == IF At(s, a) = "(" THEN a + 1 ELSE a
        d == DigitRun(s, b, 3)
        e == ThousandsFrom(s, b + d)
        f == IF At(s, e) = "." /\ IsDigit(At(s, e + 1))
             THEN e + 1 + DigitRun(s, e + 1, Len(s)) ELSE e
        g == IF At(s, f) = ")" THEN f + 1 ELSE f
        h == IF At(s, g) = "%" THEN g + 1 ELSE g
    IN IF d = 0 THEN 0 ELSE h

\* re.findall(pattern, text), scanning from i
RECURSIVE FindAllFrom(_, _)
FindAllFrom(s, i) ==
    IF i > Len(s) THEN <<>>
    ELSE IF MatchEnd(s, i) = 0 THEN FindAllFrom(s, i + 1)
         ELSE <<SubSeq(s, i, MatchEnd(s, i) - 1)>> \o FindAllFrom(s, MatchEnd(s, i))

\* num.replace('$', '').replace(',', '').replace('%', ''), then (123) to -123
CleanNumber(num) ==
    LET bare == KeepIdx(num, {i \in 1..Len(num) : num[i] \notin {"$", ",", "%"}})
    IN IF StartsWith(bare, "(") /\ EndsWith(bare, ")")
       THEN <<"-">> \o SubSeq(bare, 2, Len(bare) - 1)
       ELSE bare

extract_numbers_from_text(text) ==
    LET found == FindAllFrom(text, 1)
    IN [i \in 1..Len(found) |-> CleanNumber(found[i])]

\* extract_numbers_from_dataframe: every non-missing cell of the scanned
\* columns, in order
RECURSIVE extract_numbers_from_dataframe(_)
extract_numbers_from_dataframe(cs) ==
    IF cs = <<>> THEN <<>>
    ELSE (IF Head(cs) = NaN THEN <<>> ELSE extract_numbers_from_text(Head(cs)))
         \o extract_numbers_from_dataframe(Tail(cs))

\* float(num) as a Counter key.  A cleaned number that keeps a lone parenthesis
\* raises ValueError and stays a string; any other is [-]digits[.digits], and
\* two of them are the same float when they differ only by leading zeros of
\* the integer part, trailing zeros of the fraction, or the sign of zero.
FloatKey(num) ==
    IF \E i \in 1..Len(num) : num[i] \in {"(", ")"} THEN num
    ELSE LET neg  == StartsWith(num, "-")
             body == IF neg THEN Tail(num) ELSE num
             dots == {i \in 1..Len(body) : body[i] = "."}
             dot  == IF dots = {} THEN Len(body) + 1 ELSE CHOOSE i \in dots : TRUE
             ip   == SubSeq(body, 1, dot - 1)
             fp   == SubSeq(body, dot + 1, Len(body))
             inz  == {i \in 1..Len(ip) : ip[i] # "0"}
             fnz  == {i \in 1..Len(fp) : fp[i] # "0"}
             int  == IF inz = {} THEN <<"0">>
                     ELSE SubSeq(ip, CHOOSE i \in inz : \A j \in inz : i <= j, Len(ip))
             frac == IF fnz = {} THEN <<>>
                     ELSE SubSeq(fp, 1, CHOOSE i \in fnz : \A j \in fnz : j <= i)
         IN (IF neg /\ (inz # {} \/ fnz # {}) THEN <<"-">> ELSE <<>>)
            \o int \o (IF frac = <<>> THEN <<>> ELSE <<".">> \o frac)

Keys(nums) == [i \in 1..Len(nums) |-> FloatKey(nums[i])]

\* Counter()[k]
CountOf(keys, k) == Cardinality({i \in 1..Len(keys) : keys[i] = k})

\* the keys of a Counter, in insertion order
CounterKeys(keys) ==
    KeepIdx(keys, {i \in 1..Len(keys) : \A j \in 1..(i - 1) : keys[j] # keys[i]})

Entry(k, pdfKeys, tableKeys) ==
    [number |-> k, pdf_count |-> CountOf(pdfKeys, k), table_count |-> CountOf(tableKeys, k)]

\* 150-157: `if table_count < pdf_count`
IsMissing_OnlyAbsent(pdfCount, tableCount) == tableCount = 0 /\ pdfCount > 0

IsMissing(pdfCount, tableCount) == tableCount < pdfCount

MissingInTables(pdfKeys, tableKeys) ==
    LET ks == CounterKeys(pdfKeys)
        keep == {i \in 1..Len(ks) :
                    IsMissing(CountOf(pdfKeys, ks[i]), CountOf(tableKeys, ks[i]))}
        kept == KeepIdx(ks, keep)
    IN [i \in 1..Len(kept) |-> Entry(kept[i], pdfKeys, tableKeys)]

\* 160-167: `if table_count > pdf_count`
ExtraInTables(pdfKeys, tableKeys) ==
    LET ks == CounterKeys(tableKeys)
        keep == {i \in 1..Len(ks) : CountOf(tableKeys, ks[i]) > CountOf(pdfKeys, ks[i])}
        kept == KeepIdx(ks, keep)
    IN [i \in 1..Len(kept) |-> Entry(kept[i], pdfKeys, tableKeys)]

Min(a, b) == IF a < b THEN a ELSE b

\* a count of the values both sides hold, each counted once
Matches_SharedValues(pdfKeys, tableKeys) ==
    Cardinality({k \in {pdfKeys[i] : i \in 1..Len(pdfKeys)} :
                    \E j \in 1..Len(tableKeys) : tableKeys[j] = k})

\* 174-175: sum(min(pdf_number_set[num], table_number_set[num]) for num in ...)
Matches(pdfKeys, tableKeys) ==
    LET ks == CounterKeys(pdfKeys \o tableKeys)
        F[i \in 0..Len(ks)] ==
            IF i = 0 THEN 0
            ELSE F[i - 1] + Min(CountOf(pdfKeys, ks[i]), CountOf(tableKeys, ks[i]))
    IN F[Len(ks)]

\* the quotient cut off after two decimals
Accuracy_Truncated(matches, total) ==
    IF total > 0 THEN (matches * 10000) \div total ELSE 0

\* 177 and 186: round(matches / total * 100, 2), in hundredths of a percent
Accuracy(matches, total) ==
    IF total > 0 THEN (matches * 20000 + total) \div (2 * total) ELSE 0

\* 126-192 of validate_extracted_data
CompletedReport(text, cs) ==
    LET pdfKeys == Keys(extract_numbers_from_text(text))
        tableKeys == Keys(extract_numbers_from_dataframe(cs))
    IN [status |-> "completed",
        total_pdf_numbers |-> Len(pdfKeys),
        total_table_numbers |-> Len(tableKeys),
        matches |-> Matches(pdfKeys, tableKeys),
        accuracy_percent |-> Accuracy(Matches(pdfKeys, tableKeys), Len(pdfKeys)),
        missing_in_tables |-> MissingInTables(pdfKeys, tableKeys),
        extra_in_tables |-> ExtraInTables(pdfKeys, tableKeys)]

\* the reconciliation example of the design document
ExampleText ==
    <<"R", "e", "v", "e", "n", "u", "e", " ", "$", "1", ",", "2", "3", "4", " ",
      "a", "n", "d", " ", "(", "5", "0", "0", ")", " ", "r", "e", "s", "e", "r", "v", "e">>

ExampleCells == << <<"1", "2", "3", "4">>, <<"-", "5", "0", "0">> >>

\* the same table as a spreadsheet prints it
ExampleCellsFormatted == << <<"1", ",", "2", "3", "4">>, <<"(", "5", "0", "0", ")">> >>

\* a source that holds the same number three times
RepeatedText == <<"5", " ", "5", " ", "5">>

SourceTexts == UNION {StringsOfLen(k) : k \in 0..MaxTextLen}

\* cells a table can hold: a missing value, a number, two numbers, a negative
\* number in parentheses, a number with an orphan parenthesis
CellSamples == {NaN, <<"5">>, <<"5", " ", "5">>, <<"(", "5", ")">>, <<"5", ")">>}

TableCellLists == UNION {[1..n -> CellSamples] : n \in 1..MaxCells}

ValidationInit ==
    /\ RepairIdle
    /\ PipelineIdle
    /\ QualityIdle /\ RollupIdle /\ CliIdle /\ FenceIdle
    /\ \/ pdf_text \in SourceTexts /\ table_cells \in TableCellLists
       \/ pdf_text = ExampleText /\ table_cells \in {ExampleCells, ExampleCellsFormatted}
       \/ pdf_text = RepeatedText /\ table_cells \in TableCellLists
    /\ report = NoReport

\* 105-112: no page of the PDF gave any text
ReportSkipped ==
    /\ report.status = "none"
    /\ pdf_text = <<>>
    /\ report' = [NoReport EXCEPT !.status = "skipped"]
    /\ UNCHANGED <<pdf_text, table_cells, repairVars, pipelineVars,
                   qualityVars, rollupVars, cliVars, fenceVars>>

\* 114-192
ReportCompleted ==
    /\ report.status = "none"
    /\ pdf_text # <<>>
    /\ report' = CompletedReport(pdf_text, table_cells)
    /\ UNCHANGED <<pdf_text, table_cells, repairVars, pipelineVars,
                   qualityVars, rollupVars, cliVars, fenceVars>>

ValidationNext == ReportSkipped \/ ReportCompleted

SpecValidation == ValidationInit /\ [][ValidationNext]_vars

-----------------------------------------------------------------------------
(* quality_check.py: the heuristics that judge a structurally extracted table *)
(*                                                                           *)
(* A table is a number of columns and a sequence of row groups.  A group is  *)
(* a number of consecutive rows of one kind:                                 *)
(*   "full"    every cell holds a string, the rows differ from all others;   *)
(*   "repeat"  every cell holds a string, the rows are copies of one row;    *)
(*   "sparse"  only the first cell holds a string, the rows differ;          *)
(*   "blank"   every cell is NaN;                                            *)
(*   "garbled" as "full", and every cell matches a garbled-text pattern.     *)

MaxGroups == 2

RowKinds == {"full", "repeat", "sparse", "blank", "garbled"}

\* row counts on both sides of the thresholds 3, 5, 20, 50 and 70
GroupSizes == {1, 3, 4, 10, 51, 80}

ColumnCounts == {1, 2, 15}

RowGroups == [rows : GroupSizes, kind : RowKinds]

\* t is one of the tables the heuristics are tried on
IsQualityTable(t) ==
    \/ t = NoTable
    \/ \E c \in ColumnCounts, n \in 1..MaxGroups :
          \E g \in [1..n -> RowGroups] : t = [num_cols |-> c, groups |-> g]

\* the sum of f over the groups of t
SumGroups(t, f(_)) ==
    LET F[i \in 0..Len(t.groups)] ==
            IF i = 0 THEN 0 ELSE F[i - 1] + f(t.groups[i])
    IN F[Len(t.groups)]

RowsIn(g) == g.rows

\* len(df)
NumRows(t) == SumGroups(t, RowsIn)

\* df.empty
IsEmptyTable(t) == t.num_cols = 0 \/ NumRows(t) = 0

\* df.notna().sum(axis=1) for a row of the kind
NonNull(k, cols) ==
    IF k = "blank" THEN 0 ELSE IF k = "sparse" THEN 1 ELSE cols

\* 48: Heuristic 1 with a threshold of 5 rows
SingleColumnTrap_FiveRows(rows, cols) == cols = 1 /\ rows > 5

\* 48: `if num_cols == 1 and num_rows > 3`
SingleColumnTrap(rows, cols) == cols = 1 /\ rows > 3

\* 53: a first test that also asks for many columns
ExcessiveRows_ManyColumns(rows, cols) == rows > 70 /\ cols > 12

\* 53: `if num_rows > 70`
ExcessiveRows(rows, cols) == rows > 70

\* 56-59: a second test that forgets the column count
ManyRowsManyColumns_AnyColumns(rows, cols) == rows > 50

\* 56-59: `elif num_rows > 50: if num_cols > 12`
ManyRowsManyColumns(rows, cols) == rows > 50 /\ cols > 12

\* 67-69: row_col_counts.mode()[0], the smallest of the most frequent counts
ModeCount(t) ==
    LET counts == {NonNull(t.groups[i].kind, t.num_cols) : i \in 1..Len(t.groups)}
        Freq(v) == LET Is(g) == IF NonNull(g.kind, t.num_cols) = v THEN g.rows ELSE 0
                   IN SumGroups(t, Is)
        best == {v \in counts : \A w \in counts : Freq(w) <= Freq(v)}
    IN CHOOSE v \in best : \A w \in best : v <= w

\* 70-73: `inconsistency_ratio > 0.3`
InconsistentColumns(t) ==
    LET Differs(g) == IF NonNull(g.kind, t.num_cols) # ModeCount(t) THEN g.rows ELSE 0
    IN SumGroups(t, Differs) * 10 > 3 * NumRows(t)

\* 79: df.isna().sum().sum()
EmptyCells(t) ==
    LET Empty(g) == g.rows * (t.num_cols - NonNull(g.kind, t.num_cols))
    IN SumGroups(t, Empty)

\* 78-84: `empty_ratio > empty_threshold`, 0.6 under 20 rows and 0.5 from there
HighEmptyRatio(t) ==
    IF NumRows(t) < 20
    THEN EmptyCells(t) * 10 > 6 * NumRows(t) * t.num_cols
    ELSE EmptyCells(t) * 2 > NumRows(t) * t.num_cols

\* 92: df_str.duplicated(keep='first').sum(): the copies of a "repeat" group
\* but one, and the blank rows but one
DuplicatedRows(t) ==
    LET Copies(g) == IF g.kind = "repeat" THEN g.rows - 1 ELSE 0
        Blank(g) == IF g.kind = "blank" THEN g.rows ELSE 0
    IN SumGroups(t, Copies) + (IF SumGroups(t, Blank) > 0 THEN SumGroups(t, Blank) - 1 ELSE 0)

\* 89-95: `if num_rows > 5` and `duplicate_ratio > 0.2`
HighDuplicateRatio(t) == NumRows(t) > 5 /\ DuplicatedRows(t) * 5 > NumRows(t)

\* 103-122: the loop looks at the first 20 cells of each column, column by
\* column, and stops once sample_size string cells were checked.  Column 1
\* holds a string in every row that is not blank, the other columns in every
\* row that is neither blank nor sparse.
GarbledSample(t) ==
    LET n == Len(t.groups)
        deep == Min(20, NumRows(t))
        sample_size == Min(100, NumRows(t) * t.num_cols)
        Upto[i \in 0..n] == IF i = 0 THEN 0 ELSE Upto[i - 1] + t.groups[i].rows
        \* the rows of group i among the first 20
        Top(i) == Min(Upto[i], deep) - Min(Upto[i - 1], deep)
        First(i) == IF t.groups[i].kind # "blank" THEN Top(i) ELSE 0
        Wide(i) == IF t.groups[i].kind \in {"full", "repeat", "garbled"} THEN Top(i) ELSE 0
        Bad(i) == IF t.groups[i].kind = "garbled" THEN Top(i) ELSE 0
        Sum(f(_)) == LET F[i \in 0..n] == IF i = 0 THEN 0 ELSE F[i - 1] + f(i)
                     IN F[n]
        WideUpto[i \in 0..n] == IF i = 0 THEN 0 ELSE WideUpto[i - 1] + Wide(i)
        all == Sum(First) + (t.num_cols - 1) * Sum(Wide)
        \* the loop stopped inside a column, `part` strings after `whole`
        \* complete columns that followed the first
        rest == sample_size - Sum(First)
        whole == rest \div Sum(Wide)
        part == rest % Sum(Wide)
        BadInPart(i) == IF t.groups[i].kind = "garbled"
                        THEN Min(part, WideUpto[i]) - Min(part, WideUpto[i - 1])
                        ELSE 0
    IN IF all <= sample_size
       THEN [checked |-> all, garbled |-> Sum(Bad) * t.num_cols]
       ELSE [checked |-> sample_size,
             garbled |-> Sum(Bad) * (1 + whole) + Sum(BadInPart)]

\* 124: `cells_checked > 0 and garbled_count / cells_checked > 0.1`
GarbledText(t) ==
    LET sample == GarbledSample(t)
    IN sample.checked > 0 /\ sample.garbled * 10 > sample.checked

IssueIf(cond, name) == IF cond THEN <<name>> ELSE <<>>

detect_quality_issues(t) ==
    IF IsEmptyTable(t) THEN <<>>
    ELSE IssueIf(SingleColumnTrap(NumRows(t), t.num_cols), "single_column")
         \o (IF ExcessiveRows(NumRows(t), t.num_cols) THEN <<"excessive_rows">>
             ELSE IssueIf(ManyRowsManyColumns(NumRows(t), t.num_cols),
                          "excessive_rows_many_columns"))
         \o IssueIf(InconsistentColumns(t), "inconsistent_columns")
         \o IssueIf(HighEmptyRatio(t), "empty_cells")
         \o IssueIf(HighDuplicateRatio(t), "duplicate_rows")
         \o IssueIf(GarbledText(t), "garbled_text")

\* table_extraction.py 439: df.dropna(how='all').dropna(axis=1, how='all')
DropNa(t) ==
    LET kept == KeepIdx(t.groups, {i \in 1..Len(t.groups) : t.groups[i].kind # "blank"})
    IN IF kept = <<>> THEN NoTable
       ELSE IF \A i \in 1..Len(kept) : kept[i].kind = "sparse"
            THEN [num_cols |-> 1,
                  groups |-> [i \in 1..Len(kept) |-> [kept[i] EXCEPT !.kind = "full"]]]
            ELSE [num_cols |-> t.num_cols, groups |-> kept]

\* the heuristics are called on a table, or a text PDF of one page with one
\* table is about to go through extract_tables_from_text_pdf
QualityInit ==
    /\ RepairIdle
    /\ ValidationIdle /\ RollupIdle /\ CliIdle /\ FenceIdle
    /\ issues = <<>>
    /\ caller = "direct" /\ batch = "none" /\ nFiles = 1 /\ fileIdx = 0
    /\ success_list = <<>> /\ failed_list = <<>> /\ outcomes = <<>>
    /\ force_vision = FALSE
    /\ save_every = DefaultSaveEvery
    /\ kind = "pdf" /\ is_image_based = FALSE
    /\ tables = <<>> /\ quality_issues_detected = FALSE /\ calls = <<>>
    /\ structural = [state |-> "not_called", n |-> 0, flagged |-> 0]
    /\ finalSet = "unset" /\ result = "pending"
    /\ num_pages = 0 /\ page_num = 0 /\ vtables = <<>> /\ pageLog = <<>> /\ saves = <<>>
    /\ keyAvail \in BOOLEAN
    /\ pc \in {"detect", "structural"}
    /\ pc = "detect" => keyAvail
    /\ IsQualityTable(df)

\* detect_quality_issues(df), called on its own
DetectIssues ==
    /\ pc = "detect"
    /\ issues' = detect_quality_issues(df)
    /\ pc' = "detected"
    /\ UNCHANGED <<df, repairVars, validationVars, rollupVars, cliVars, fenceVars, batchVars,
                   force_vision, keyAvail, save_every, kind, is_image_based, tables,
                   quality_issues_detected, calls, structural, finalSet, result,
                   visionVars>>

\* table_extraction.py 435-475, for the one table of the PDF
ExtractTable ==
    /\ pc = "structural"
    /\ Invoke("structural")
    /\ df' = DropNa(df)
    /\ issues' = detect_quality_issues(df')
    /\ tables' = IF IsEmptyTable(df') THEN <<>>
                 ELSE <<StructuralTable(1, issues' # <<>>)>>
    /\ quality_issues_detected' = (issues' # <<>>)
    /\ structural' = [state |-> "returned", n |-> Len(tables'),
                      flagged |-> IF issues' # <<>> THEN 1 ELSE 0]
    /\ pc' = "gate"
    /\ UNCHANGED <<repairVars, validationVars, rollupVars, cliVars, fenceVars, batchVars,
                   force_vision, keyAvail, save_every, kind, is_image_based,
                   finalSet, result, visionVars>>

QualityNext == DetectIssues \/ ExtractTable \/ Gate

SpecQuality == QualityInit /\ [][QualityNext]_vars

-----------------------------------------------------------------------------
(* excel_writer.py: roll-up rows and the ranges their SUM formulas cover     *)
(*                                                                           *)
(* A table is its column names, the Row_Type cell of each row (when there is *)
(* such a column) and the first-column label of each row.  Rows are numbered *)
(* from 1; row r of the table is row r + 1 of the worksheet, under the       *)
(* header row.                                                               *)

MaxRows == 4

\* Row_Type cells as the vision extractor may return them: the three tags,
\* a tag in another case with padding, a missing cell, and another word
RawTags == {"ROLLUP", "DETAIL", "HEADER", " detail", "NaN", "NOTE"}

\* first-column cells
LabelSamples == {"Total Income", " GROSS RENT", "Rent", "NaN"}

\* column names: "Amount" and "Account" hold digits, "Comment" holds none
ColumnLayouts ==
    {<<"Row_Type", "Category", "Amount", "Notes">>,
     <<"Row_Type", "Category", "Comment">>,
     <<"Row_Type", "Account", "Amount">>,
     <<"Category", "Amount">>}

HasColumn(name) == \E c \in 1..Len(columns) : columns[c] = name

\* 29, 89, 104: str(row_type).strip().upper()
StripUpper(cell) == IF cell = " detail" THEN "DETAIL" ELSE cell

\* 43: str(value).lower().strip()
LowerStrip(cell) ==
    CASE cell = "Total Income" -> "total income"
      [] cell = " GROSS RENT" -> "gross rent"
      [] cell = "Rent" -> "rent"
      [] OTHER -> cell

\* 18, 44: any(indicator in value_lower for indicator in rollup_indicators)
HasIndicator(lowered) == lowered \in {"total income", "gross rent"}

NumTableRows == Len(labels)

\* 9-49
identify_rollup_rows ==
    IF HasColumn("Row_Type")
    THEN SelectSeq([i \in 1..NumTableRows |-> i],
                   LAMBDA i : row_type[i] # "NaN" /\ StripUpper(row_type[i]) = "ROLLUP")
    ELSE SelectSeq([i \in 1..NumTableRows |-> i],
                   LAMBDA i : labels[i] # "NaN" /\ HasIndicator(LowerStrip(labels[i])))

\* 61
label_cols == {"Row_Type", "INCOME", "Category", "EXPENSES", "Subcategory", "Description", "Item"}

\* 70-74: some of the first five cells of the column holds a digit, '$', '%' or ','
LooksNumeric(name) == name \in {"Amount", "Account"}

\* 63-75
NumericColumns ==
    {c \in 1..Len(columns) :
        /\ columns[c] \notin label_cols
        /\ columns[c] \notin {"Notes", "notes", "Note"}
        /\ LooksNumeric(columns[c])}

\* 94: a forward scan that runs through headers
StopsForward_RollupOnly(tag) == tag = "ROLLUP"

\* 94: `elif row_type_str in ['ROLLUP', 'HEADER']: break`
StopsForward(tag) == tag \in {"ROLLUP", "HEADER"}

\* 109: a backward scan that runs through headers
StopsBackward_RollupOnly(tag) == tag = "ROLLUP"

\* 109: `elif row_type_str in ['ROLLUP', 'HEADER']: break`
StopsBackward(tag) == tag \in {"ROLLUP", "HEADER"}

\* no range: start_detail_idx and end_detail_idx are None (0 here)
NoRange == [start |-> 0, end |-> 0, stopped |-> FALSE]

\* a forward loop that moves the end onto the row it stops at
ForwardStep_EndAtStop(p, i) ==
    IF p.stopped \/ ~HasColumn("Row_Type") \/ row_type[i] = "NaN" THEN p
    ELSE IF StripUpper(row_type[i]) = "DETAIL"
         THEN [p EXCEPT !.start = IF p.start = 0 THEN i ELSE p.start, !.end = i]
         ELSE IF StopsForward(StripUpper(row_type[i]))
              THEN [p EXCEPT !.stopped = TRUE, !.end = IF p.start = 0 THEN 0 ELSE i]
              ELSE p

\* 86-96: one iteration of the forward loop, p being the indexes so far
ForwardStep(p, i) ==
    IF p.stopped \/ ~HasColumn("Row_Type") \/ row_type[i] = "NaN" THEN p
    ELSE IF StripUpper(row_type[i]) = "DETAIL"
         THEN [p EXCEPT !.start = IF p.start = 0 THEN i ELSE p.start, !.end = i]
         ELSE IF StopsForward(StripUpper(row_type[i])) THEN [p EXCEPT !.stopped = TRUE]
              ELSE p

\* 85-96: `for i in range(rollup_idx + 1, len(df))`
ForwardScan(r) ==
    LET F[i \in r..NumTableRows] == IF i = r THEN NoRange ELSE ForwardStep(F[i - 1], i)
    IN F[NumTableRows]

\* a backward loop that takes every row of a table without a Row_Type
\* column for a detail row
BackwardStep_Untyped(p, i) ==
    IF ~HasColumn("Row_Type")
    THEN [p EXCEPT !.end = IF p.end = 0 THEN i ELSE p.end, !.start = i]
    ELSE IF p.stopped \/ row_type[i] = "NaN" THEN p
    ELSE IF StripUpper(row_type[i]) = "DETAIL"
         THEN [p EXCEPT !.end = IF p.end = 0 THEN i ELSE p.end, !.start = i]
         ELSE IF StopsBackward(StripUpper(row_type[i])) THEN [p EXCEPT !.stopped = TRUE]
              ELSE p

\* 101-111: one iteration of the backward loop
BackwardStep(p, i) ==
    IF p.stopped \/ ~HasColumn("Row_Type") \/ row_type[i] = "NaN" THEN p
    ELSE IF StripUpper(row_type[i]) = "DETAIL"
         THEN [p EXCEPT !.end = IF p.end = 0 THEN i ELSE p.end, !.start = i]
         ELSE IF StopsBackward(StripUpper(row_type[i])) THEN [p EXCEPT !.stopped = TRUE]
              ELSE p

\* 100-111: `for i in range(rollup_idx - 1, -1, -1)`
BackwardScan(r) ==
    LET B[i \in 1..r] == IF i = r THEN NoRange ELSE BackwardStep(B[i + 1], i)
    IN B[1]

\* 81-111: the range found for the roll-up row r
DetailRange(r) ==
    LET fwd == ForwardScan(r)
        found == IF fwd.start = 0 THEN BackwardScan(r) ELSE fwd
    IN [rollup |-> r, start |-> found.start, end |-> found.end,
        forward |-> fwd.start # 0]

\* 113-127: the formulas of one roll-up row, one per numeric column
FormulasOf(range) ==
    IF range.start # 0 /\ range.end # 0
    THEN {[row |-> range.rollup + 1, column |-> c,
           first |-> range.start + 1, last |-> range.end + 1] : c \in numeric_cols}
    ELSE {}

\* a table is handed to identify_rollup_rows
RollupInit ==
    /\ RepairIdle
    /\ PipelineIdle
    /\ ValidationIdle /\ QualityIdle /\ CliIdle /\ FenceIdle
    /\ numeric_cols = {} /\ rollup_rows = <<>> /\ ranges = <<>> /\ formulas = {}
    /\ rollup_step = "identify"
    /\ columns \in ColumnLayouts
    /\ \E n \in 1..MaxRows :
          IF columns[1] = "Row_Type"
          THEN row_type \in [1..n -> RawTags] /\ labels = [i \in 1..n |-> "Rent"]
          ELSE row_type = <<>> /\ labels \in [1..n -> LabelSamples]

\* 9-49
IdentifyRollupRows ==
    /\ rollup_step = "identify"
    /\ rollup_rows' = identify_rollup_rows
    /\ rollup_step' = "numeric"
    /\ UNCHANGED <<columns, row_type, labels, numeric_cols, ranges, formulas,
                   repairVars, pipelineVars, validationVars, qualityVars, cliVars, fenceVars>>

\* 63-75
FindNumericColumns ==
    /\ rollup_step = "numeric"
    /\ numeric_cols' = NumericColumns
    /\ rollup_step' = "ranges"
    /\ UNCHANGED <<columns, row_type, labels, rollup_rows, ranges, formulas,
                   repairVars, pipelineVars, validationVars, qualityVars, cliVars, fenceVars>>

\* 77-127: one iteration of `for rollup_idx in rollup_rows`
RollupFormulas ==
    /\ rollup_step = "ranges"
    /\ Len(ranges) < Len(rollup_rows)
    /\ LET range == DetailRange(rollup_rows[Len(ranges) + 1])
       IN /\ ranges' = Append(ranges, range)
          /\ formulas' = formulas \cup FormulasOf(range)
    /\ UNCHANGED <<columns, row_type, labels, numeric_cols, rollup_rows, rollup_step,
                   repairVars, pipelineVars, validationVars, qualityVars, cliVars, fenceVars>>

\* 77: the loop is over
RollupReturn ==
    /\ rollup_step = "ranges"
    /\ Len(ranges) = Len(rollup_rows)
    /\ rollup_step' = "written"
    /\ UNCHANGED <<columns, row_type, labels, numeric_cols, rollup_rows, ranges, formulas,
                   repairVars, pipelineVars, validationVars, qualityVars, cliVars, fenceVars>>

RollupNext == IdentifyRollupRows \/ FindNumericColumns \/ RollupFormulas \/ RollupReturn

SpecRollup == RollupInit /\ [][RollupNext]_vars

-----------------------------------------------------------------------------
(* pdf_to_xls_cli.py: main, around convert_pdf_to_excel and                  *)
(* batch_convert_directory                                                   *)

\* what Path(args.input) names
InputPaths == {"missing", "file", "dir", "other"}

\* main left through sys.exit(status), or by returning (status 0)
Exit(status) == cli' = "exited" /\ exit_status' = status

\* the command line was parsed; convert_pdf_to_excel gets the default save_every
CliInit ==
    /\ RepairIdle
    /\ ValidationIdle /\ QualityIdle /\ RollupIdle /\ FenceIdle
    /\ cli = "start" /\ exit_status = -1
    /\ input_path \in InputPaths
    /\ caller = IF input_path = "dir" THEN "batch" ELSE "direct"
    /\ batch = "none"
    /\ nFiles = IF caller = "batch" THEN 0 ELSE 1
    /\ fileIdx = 0
    /\ success_list = <<>> /\ failed_list = <<>> /\ outcomes = <<>>
    /\ force_vision \in BOOLEAN
    /\ keyAvail \in BOOLEAN
    /\ save_every = DefaultSaveEvery
    /\ pc = "cli" /\ kind = "pdf" /\ is_image_based = FALSE
    /\ tables = <<>> /\ quality_issues_detected = FALSE /\ calls = <<>>
    /\ structural = [state |-> "not_called", n |-> 0, flagged |-> 0]
    /\ finalSet = "unset" /\ result = "pending"
    /\ num_pages = 0 /\ page_num = 0 /\ vtables = <<>> /\ pageLog = <<>> /\ saves = <<>>

\* 33-35: `if not input_path.exists(): sys.exit(1)`
CliCheckPath ==
    /\ cli = "start"
    /\ IF input_path = "missing" THEN Exit(1)
       ELSE cli' = "path_ok" /\ exit_status' = exit_status
    /\ UNCHANGED <<input_path, repairVars, validationVars, qualityVars, rollupVars, fenceVars,
                   pipelineVars>>

\* 38-42: get_api_key() raises ValueError without a key
CliCheckKey ==
    /\ cli = "path_ok"
    /\ IF keyAvail THEN cli' = "key_ok" /\ exit_status' = exit_status
       ELSE Exit(1)
    /\ UNCHANGED <<input_path, repairVars, validationVars, qualityVars, rollupVars, fenceVars,
                   pipelineVars>>

\* 44-56: a file is converted, a directory is converted as a batch, anything
\* else is an invalid path
CliDispatch ==
    /\ cli = "key_ok"
    /\ IF input_path = "file"
       THEN cli' = "running" /\ exit_status' = exit_status /\ pc' = "idle" /\ batch' = batch
       ELSE IF input_path = "dir"
            THEN cli' = "running" /\ exit_status' = exit_status /\ pc' = "idle"
                 /\ batch' = "scan"
            ELSE Exit(1) /\ pc' = pc /\ batch' = batch
    /\ UNCHANGED <<input_path, repairVars, validationVars, qualityVars, rollupVars, fenceVars,
                   caller, nFiles, fileIdx, success_list, failed_list, outcomes,
                   force_vision, keyAvail, save_every, kind, is_image_based, tables,
                   quality_issues_detected, calls, structural, finalSet, result,
                   visionVars>>

\* 58-60: KeyboardInterrupt anywhere inside the try block
CliInterrupt ==
    /\ cli = "running"
    /\ Exit(1)
    /\ pc' = "interrupted"
    /\ batch' = IF caller = "batch" THEN "interrupted" ELSE batch
    /\ UNCHANGED <<input_path, repairVars, validationVars, qualityVars, rollupVars, fenceVars,
                   caller, nFiles, fileIdx, success_list, failed_list, outcomes,
                   force_vision, keyAvail, save_every, kind, is_image_based, tables,
                   quality_issues_detected, calls, structural, finalSet, result,
                   visionVars>>

\* a main whose `except Exception` does not exit
ExitAfter_Swallow(raised) == 0

\* 61-63: `except Exception: sys.exit(1)`; falling off the end of main is status 0
ExitAfter(raised) == IF raised THEN 1 ELSE 0

\* 46-63: the call made at 46 or 48 came back, by return or by exception
CliExit ==
    /\ cli = "running"
    /\ \/ /\ caller = "direct" /\ pc = "returned"
          /\ Exit(ExitAfter(result \in {"FileNotFoundError", "ValueError", "Exception"}))
       \/ /\ caller = "batch" /\ batch \in {"returned", "raised"}
          /\ Exit(ExitAfter(batch = "raised"))
    /\ UNCHANGED <<input_path, repairVars, validationVars, qualityVars, rollupVars, fenceVars,
                   pipelineVars>>

CliNext ==
    \/ CliCheckPath \/ CliCheckKey \/ CliDispatch \/ CliInterrupt \/ CliExit
    \/ BatchScan \/ Call \/ RouteImage \/ RoutePdf
    \/ Structural \/ Gate
    \/ VisionOpen \/ VisionPage \/ VisionReturn \/ ImageVision
    \/ Final \/ Merge \/ Validate \/ Write
    \/ BatchRecord \/ BatchReturn

SpecCli == CliInit /\ [][CliNext]_vars

-----------------------------------------------------------------------------
(* The reply of the vision model and its markdown code fence,                *)
(* table_extraction.py 136-142 (329-335 for a single image).  A text is the  *)
(* sequence of its lines: split('\n') and '\n'.join go between the two.      *)

\* lines that open or close a code block: three backticks, written FENCE
\* here, alone or followed by a language name
FenceLines == {"FENCE", "FENCEcsv"}

\* lines of CSV
DataLines == {"a,b", "1,2"}

BlankLine == ""

Replies == UNION {[1..n -> FenceLines \cup DataLines \cup {BlankLine}] : n \in 1..MaxLines}

\* str.strip() on the whole text: the blank lines at either end go
StripText(text) ==
    LET ns == {i \in 1..Len(text) : text[i] # BlankLine}
    IN IF ns = {} THEN <<>>
       ELSE SubSeq(text, CHOOSE i \in ns : \A j \in ns : i <= j,
                         CHOOSE i \in ns : \A j \in ns : j <= i)

\* csv_content.startswith(three backticks)
StartsWithFence(text) == text # <<>> /\ text[1] \in FenceLines

\* 142: lines[1:-1]
InnerLines(lines) == SubSeq(lines, 2, Len(lines) - 1)

\* 139-142: if csv_content.startswith(three backticks), then
\* `'\n'.join(lines[1:-1]) if len(lines) > 2 else csv_content`
RemoveCodeBlock(text) ==
    IF StartsWithFence(text)
    THEN IF Len(text) > 2 THEN InnerLines(text) ELSE text
    ELSE text

FenceInit ==
    /\ RepairIdle
    /\ PipelineIdle
    /\ ValidationIdle /\ QualityIdle /\ RollupIdle /\ CliIdle
    /\ reply \in Replies
    /\ csv_content = <<>>
    /\ fence = "reply"

\* 137-142: the reply is stripped and its code block markers are removed
CleanReply ==
    /\ fence = "reply"
    /\ csv_content' = RemoveCodeBlock(StripText(reply))
    /\ fence' = "cleaned"
    /\ UNCHANGED <<reply, repairVars, pipelineVars, validationVars, qualityVars,
                   rollupVars, cliVars>>

FenceNext == CleanReply

SpecFence == FenceInit /\ [][FenceNext]_vars

-----------------------------------------------------------------------------
(* Properties of the path selector, checked under Spec *)

Invoked(name) == \E i \in DOMAIN calls : calls[i] = name

Times(name) == Cardinality({i \in DOMAIN calls : calls[i] = name})

VisionInvoked == Invoked("vision") \/ Invoked("image_vision")

\* the path has been chosen and the extractors have returned
Decided == pc \in {"final", "merge", "validate", "write", "returned"}

\* the run is inside convert_pdf_to_excel or has just left it
InRun == pc \notin {"idle", "route"} /\ result # "FileNotFoundError"

StructuralFoundNothingOrFlagged == structural.n = 0 \/ structural.flagged > 0

\* C1 as the claim words it: for a PDF that is not image-based, with
\* force_vision off, the vision extractor is invoked exactly when the
\* structural extraction returned no tables or flagged a table.
C1_AsStated ==
    (Decided /\ structural.state = "returned")
        => (Invoked("vision") <=> StructuralFoundNothingOrFlagged)

\* C1: for a PDF that is not image-based, with force_vision off, once the
\* structural extraction has returned, the vision extractor is invoked exactly
\* when (no tables were returned or a table was flagged) and an API key can be
\* resolved; when the retry is due and no key can be resolved the run ends
\* with ValueError and no vision call; when the vision extractor was invoked
\* the table set at `if not tables` is its result and holds no structurally
\* extracted table.
C1_RetryIffNeededAndKey ==
    (Decided /\ structural.state = "returned")
        => /\ ~force_vision /\ ~is_image_based /\ kind = "pdf"
           /\ Invoked("vision") <=> (StructuralFoundNothingOrFlagged /\ keyAvail)
           /\ (StructuralFoundNothingOrFlagged /\ ~keyAvail)
                 => (pc = "returned" /\ result = "ValueError")
           /\ (Invoked("vision") /\ pc = "final")
                 => /\ tables = vtables
                    /\ \A i \in DOMAIN tables : tables[i].origin = "vision"
           /\ (~Invoked("vision") /\ pc = "final")
                 => /\ tables # <<>>
                    /\ \A i \in DOMAIN tables : tables[i].origin = "structural"

\* a flagged structural result was thrown away for a non-empty vision result
C1_Witness ==
    /\ pc = "final"
    /\ structural.state = "returned" /\ structural.n = 2 /\ structural.flagged = 1
    /\ calls = <<"structural", "vision">>
    /\ Len(tables) = 1 /\ tables[1].origin = "vision"

\* C2: in one run the structural extractor is invoked at most once, the vision
\* extractor at most once, and never the structural one after the vision one.
C2_OneShot ==
    /\ Times("structural") <= 1
    /\ Times("vision") + Times("image_vision") <= 1
    /\ \A i, j \in DOMAIN calls :
          (calls[i] \in {"vision", "image_vision"} /\ calls[j] = "structural") => j < i

\* the retry came back empty and the run ended there
C2_Witness ==
    /\ pc = "returned" /\ result = "None"
    /\ calls = <<"structural", "vision">>
    /\ structural.flagged > 0
    /\ num_pages = MaxPages

\* C3 as the claim words it: image-based or forced, the vision extractor is
\* invoked and the structural one is not.
C3_AsStated ==
    (InRun /\ kind = "pdf" /\ (force_vision \/ is_image_based) /\ pc = "returned")
        => (Invoked("vision") /\ ~Invoked("structural"))

\* C3: for a PDF classified image-based, or with force_vision set, the
\* structural extractor is never invoked; the vision extractor is the first
\* and only extractor invoked when an API key can be resolved, and otherwise
\* the run ends with ValueError before any extractor is invoked.
C3_VisionDirectly ==
    (InRun /\ kind = "pdf" /\ (force_vision \/ is_image_based))
        => /\ ~Invoked("structural")
           /\ structural.state = "not_called"
           /\ IF keyAvail
              THEN pc = "vision_open" \/ (calls # <<>> /\ calls[1] = "vision")
              ELSE pc = "returned" /\ result = "ValueError" /\ calls = <<>>

\* a text PDF sent to vision by force_vision, converted to the end
C3_Witness ==
    /\ force_vision /\ ~is_image_based /\ kind = "pdf"
    /\ pc = "returned" /\ result = "path"
    /\ calls = <<"vision", "merge", "validate", "write">>

PassesOf(t) == {t.passes[i].pass : i \in DOMAIN t.passes}

AtConsumer == pc \in {"validate", "write"} \/ Invoked("validate") \/ Invoked("write")

C5_EmptyReturnsNone ==
    finalSet = "empty"
        => /\ ~Invoked("validate") /\ ~Invoked("write") /\ ~Invoked("merge")
           /\ IF pc = "returned"
              THEN result = "None"
              ELSE pc = "idle" /\ caller = "batch" /\ outcomes[fileIdx] = "None"

\* the retry found nothing on any page and the run returned None
C5_Witness ==
    /\ finalSet = "empty" /\ pc = "returned" /\ result = "None"
    /\ calls = <<"structural", "vision">>
    /\ Len(pageLog) = MaxPages

PagesOf(ts) == {ts[i].page : i \in DOMAIN ts}

VisionReturned == Invoked("vision") /\ pc # "vision_loop"

\* C6: in the vision extractor a page whose rendering, API call or CSV parse
\* fails adds no table; the pages are gone through in order and every page is
\* attempted whatever happened to the ones before; a table collected from a
\* page stays in the list that is returned.
C6_SkipAndContinue ==
    /\ \A i \in DOMAIN pageLog :
          /\ pageLog[i].page = i
          /\ pageLog[i].event \in Skipped => i \notin PagesOf(vtables)
          /\ pageLog[i].event = "table" => i \in PagesOf(vtables)
    /\ \A i, j \in DOMAIN vtables : i < j => vtables[i].page < vtables[j].page
    /\ pc = "vision_loop" => Len(pageLog) = page_num
    /\ VisionReturned => Len(pageLog) = num_pages
    /\ (VisionReturned /\ pc = "final") => tables = vtables

\* page 1 was skipped, page 2 was attempted and gave the only table returned
C6_Witness ==
    /\ pc = "final" /\ Invoked("vision")
    /\ num_pages = 2
    /\ pageLog[1].event \in Skipped /\ pageLog[2].event = "table"
    /\ PagesOf(tables) = {2}

Exceptions == {"FileNotFoundError", "ValueError", "Exception"}

InList(list, i) == \E k \in DOMAIN list : list[k] = i

\* C7: in a batch a file whose conversion raises is recorded in the failed
\* list, the files after it are still converted, and the batch call returns
\* without raising once its loop has started.
C7_BatchSurvivesFailure ==
    /\ \A i \in DOMAIN outcomes :
          /\ outcomes[i] \in Exceptions <=> InList(failed_list, i)
          /\ outcomes[i] = "path" <=> InList(success_list, i)
    /\ Len(outcomes) = fileIdx
    /\ (batch = "returned" /\ nFiles > 0) => Len(outcomes) = nFiles
    /\ batch = "raised" => (nFiles = 0 /\ outcomes = <<>>)

\* the first file raised, the second was converted, the batch returned
C7_Witness ==
    /\ batch = "returned" /\ nFiles = 2
    /\ outcomes = <<"Exception", "path">>
    /\ failed_list = <<1>> /\ success_list = <<2>>

-----------------------------------------------------------------------------
(* Properties of the repair engine, checked under SpecRepair *)

\* the rows returned by the calls of pass p so far
Returned(p) == {snaps[k] : k \in {j \in 1..done : schedule[j] = p}}

\* '(' directly followed by whitespace, or whitespace directly followed by ')'
HasPadding(s) ==
    \E i \in 1..(Len(s) - 1) :
        \/ s[i] = "(" /\ IsSpace(s[i + 1])
        \/ IsSpace(s[i]) /\ s[i + 1] = ")"

NoNumberCloseOpen(r) == \A c \in 1..Len(r) : r[c] # NaN => ~IsNumberCloseOpen(r[c])

NoInnerTrailingOpen(r) == \A c \in 1..(Len(r) - 1) : r[c] # NaN => ~EndsWith(r[c], "(")

\* C8 as stated: after Pass B no cell matches <number>)( and no cell other than
\* the one in the final column ends with a trailing '('.  A table of one column
\* has no column pair to scan, so its cell "5)(" is returned as it came.
C8_AsStated ==
    \A r \in Returned("B") : NoNumberCloseOpen(r) /\ NoInnerTrailingOpen(r)

\* C8 (amended): after Pass B no cell of a table with two or more columns
\* matches <number>)(, and in any table no cell other than the one in the final
\* column ends with a trailing '('.
C8_PassBClean ==
    \A r \in Returned("B") :
        /\ Len(r) >= 2 => NoNumberCloseOpen(r)
        /\ NoInnerTrailingOpen(r)

\* Pass B returned a row of two columns or more that came in with a <number>)(
\* cell or with a trailing '(' left of the final column, and moved it.
C8_Witness ==
    /\ done >= 1
    /\ schedule[1] = "B"
    /\ Len(input) >= 2
    /\ ~(NoNumberCloseOpen(input) /\ NoInnerTrailingOpen(input))
    /\ snaps[1] # input

\* C9: after Pass A no string cell holds '(' directly followed by whitespace or
\* whitespace directly followed by ')', also when '((' was collapsed, ')' was
\* appended or '(' was prepended.
C9_NoPadding ==
    \A r \in Returned("A") : \A c \in 1..Len(r) : r[c] # NaN => ~HasPadding(r[c])

\* Pass A returned a cell that came in padded and then had a parenthesis
\* collapsed, appended or prepended.
C9_Witness ==
    /\ done >= 1
    /\ schedule[1] = "A"
    /\ \E c \in 1..Len(input) :
          /\ input[c] # NaN
          /\ HasPadding(input[c])
          /\ snaps[1][c] # SubSpaceClose(SubOpenSpace(Strip(input[c])))

\* C10: the Repair Engine is idempotent: Pass A followed by Pass B, applied to
\* a table that is already the output of Pass A followed by Pass B, changes no
\* cell.
C10_Idempotent ==
    (schedule = DocumentOrder \o DocumentOrder /\ done = Len(schedule))
        => snaps[3] = snaps[2] /\ snaps[4] = snaps[2]


-----------------------------------------------------------------------------
(* Properties of the validator, checked under SpecValidation *)

\* C11: with the source text "Revenue $1,234 and (500) reserve" and the table
\* cells "1234" and "-500" the report has matches = 2, accuracy = 100%, and
\* empty missing_in_tables and extra_in_tables.
C11_ExampleReconciles ==
    (report.status = "completed" /\ pdf_text = ExampleText /\ table_cells = ExampleCells)
        => /\ report.matches = 2
           /\ report.accuracy_percent = 10000
           /\ report.missing_in_tables = <<>>
           /\ report.extra_in_tables = <<>>

EntriesFor(list, v) == {i \in 1..Len(list) : list[i].number = v}

ValuesOf(keys) == {keys[i] : i \in 1..Len(keys)}

\* what C12 asks of the two lists, given the keys counted on each side
ListsAgree(pk, tk) ==
    \A v \in ValuesOf(pk) \cup ValuesOf(tk) :
        LET m == EntriesFor(report.missing_in_tables, v)
            x == EntriesFor(report.extra_in_tables, v)
            e == [number |-> v, pdf_count |-> CountOf(pk, v), table_count |-> CountOf(tk, v)]
        IN /\ CountOf(tk, v) < CountOf(pk, v) =>
                /\ Cardinality(m) = 1 /\ x = {}
                /\ \A i \in m : report.missing_in_tables[i] = e
           /\ CountOf(tk, v) > CountOf(pk, v) =>
                /\ Cardinality(x) = 1 /\ m = {}
                /\ \A i \in x : report.extra_in_tables[i] = e
           /\ CountOf(tk, v) = CountOf(pk, v) => (m = {} /\ x = {})

\* C12: in a completed report a value whose table count is lower than its
\* source count has exactly one entry in missing_in_tables, carrying both
\* counts, and none in extra_in_tables; a value whose table count is higher
\* has exactly one entry in extra_in_tables and none in missing_in_tables; a
\* value with equal counts has no entry in either list.
C12_DiscrepancyLists ==
    report.status = "completed" =>
        ListsAgree(Keys(extract_numbers_from_text(pdf_text)),
                   Keys(extract_numbers_from_dataframe(table_cells)))

\* the source holds 5 twice, the table once
C12_Witness ==
    /\ pdf_text = <<"5", " ", "5">>
    /\ table_cells = << <<"5">> >>
    /\ report.status = "completed"
    /\ report.missing_in_tables = <<[number |-> <<"5">>, pdf_count |-> 2, table_count |-> 1]>>
    /\ report.extra_in_tables = <<>>


-----------------------------------------------------------------------------
(* Properties of the quality heuristics, checked under SpecQuality *)

\* detect_quality_issues has returned its list for df
Judged == pc \in {"detected", "gate", "vision_open", "final", "returned"}

Reported(name) == \E i \in 1..Len(issues) : issues[i] = name

\* C13: the single-column-trap issue is reported for every table with exactly
\* one column and more than 3 rows, whatever its cells hold, and for no table
\* with two or more columns or with 3 or fewer rows.
C13_SingleColumnTrap ==
    Judged => (Reported("single_column") <=> (df.num_cols = 1 /\ NumRows(df) > 3))

\* one column, 10 rows, every cell empty
C13_Witness ==
    /\ pc = "detected"
    /\ df = [num_cols |-> 1, groups |-> <<[rows |-> 10, kind |-> "blank"]>>]
    /\ Reported("single_column")

\* what C14 asks of a table: no empty cell, no duplicate row, the same number
\* of non-empty cells in every row, at most 70 rows, no garbled cell
LooksClean(t) ==
    /\ ~IsEmptyTable(t)
    /\ EmptyCells(t) = 0
    /\ DuplicatedRows(t) = 0
    /\ \A i, j \in 1..Len(t.groups) :
          NonNull(t.groups[i].kind, t.num_cols) = NonNull(t.groups[j].kind, t.num_cols)
    /\ NumRows(t) <= 70
    /\ \A i \in 1..Len(t.groups) : t.groups[i].kind # "garbled"

\* C14 as the claim words it: such a table gets an empty issue list.
C14_AsStated == (Judged /\ LooksClean(df)) => issues = <<>>

\* C14: a table with no empty cells, no duplicate rows, the same number of
\* non-empty cells in every row, at most 70 rows and no garbled cells gets an
\* empty issue list provided it is not a single column of more than 3 rows and
\* does not have more than 50 rows together with more than 12 columns; with a
\* single column of more than 3 rows the list is the single-column issue, and
\* with more than 50 rows and more than 12 columns it is the row-count issue.
C14_CleanTableNoIssues ==
    (Judged /\ LooksClean(df))
        => issues = IssueIf(df.num_cols = 1 /\ NumRows(df) > 3, "single_column")
                    \o IssueIf(NumRows(df) > 50 /\ df.num_cols > 12,
                               "excessive_rows_many_columns")

\* 51 full rows of 2 columns: no issue
C14_Witness ==
    /\ pc = "detected"
    /\ df = [num_cols |-> 2, groups |-> <<[rows |-> 51, kind |-> "full"]>>]
    /\ issues = <<>>

-----------------------------------------------------------------------------
(* Properties of the roll-up ranges, checked under SpecRollup *)

RowTags == {"HEADER", "DETAIL", "ROLLUP"}

\* the tag row i carries: its Row_Type cell, stripped and upper-cased
RowTag(i) ==
    IF HasColumn("Row_Type") /\ row_type[i] # "NaN" THEN StripUpper(row_type[i]) ELSE "NaN"

SetMin(S) == CHOOSE x \in S : \A y \in S : x <= y

SetMax(S) == CHOOSE x \in S : \A y \in S : y <= x

\* the DETAIL rows after row r and before the next ROLLUP or HEADER row
FollowingDetails(r) ==
    {i \in (r + 1)..NumTableRows :
        RowTag(i) = "DETAIL" /\ \A j \in (r + 1)..i : RowTag(j) \notin {"ROLLUP", "HEADER"}}

\* the DETAIL rows before row r and after the nearest earlier ROLLUP or HEADER row
PrecedingDetails(r) ==
    {i \in 1..(r - 1) :
        RowTag(i) = "DETAIL" /\ \A j \in i..(r - 1) : RowTag(j) \notin {"ROLLUP", "HEADER"}}

\* the run of DETAIL rows that ends just above row r
PrecedingRun(r) == {i \in 1..(r - 1) : \A j \in i..(r - 1) : RowTag(j) = "DETAIL"}

RowsOfRange(range) == IF range.start = 0 THEN {} ELSE range.start..range.end

FormulasFor(r) == {f \in formulas : f.row = r + 1}

CarriedTag(i) ==
    IF \E k \in 1..Len(rollup_rows) : rollup_rows[k] = i THEN "ROLLUP" ELSE RowTag(i)

\* C18: after row classification every row carries exactly one of the tags
\* HEADER, DETAIL or ROLLUP; a row whose tag was missing or unrecognised has
\* received an inferred one.
C18_EveryRowTagged ==
    rollup_step = "written" => \A i \in 1..NumTableRows : CarriedTag(i) \in RowTags


-----------------------------------------------------------------------------
(* Properties of the command line, checked under SpecCli *)

\* the path does not exist or is neither file nor directory, the key is
\* missing, or the file or directory vanished after main had looked at it
InputError ==
    \/ input_path \in {"missing", "other"}
    \/ ~keyAvail
    \/ result = "FileNotFoundError"
    \/ batch = "raised"

Interrupted == pc = "interrupted"

\* C19 as the claim words it: the exit status is non-zero only after an input
\* error or an interruption.
C19_AsStated ==
    (cli = "exited" /\ exit_status # 0) => (InputError \/ Interrupted)

\* C19: the command-line process exits with status 1 when an input error
\* occurred (path not found, path neither file nor directory, credential
\* missing), when the user interrupted it, and also when the conversion of a
\* single file raised an exception; in every other case the status is 0: a
\* single file that yields no table, and a batch whatever number of its files
\* failed.
C19_ExitStatus ==
    cli = "exited"
        => /\ exit_status \in {0, 1}
           /\ exit_status = 1
                <=> \/ InputError
                    \/ Interrupted
                    \/ caller = "direct" /\ result \in Exceptions
           /\ (caller = "batch" /\ batch = "returned") => exit_status = 0

\* a single file whose workbook could not be written: status 1
C19_Witness ==
    /\ cli = "exited"
    /\ input_path = "file" /\ keyAvail
    /\ result = "Exception" /\ Invoked("write")
    /\ exit_status = 1

\* a batch that ended with a failed file and status 0
C19_BatchWitness ==
    /\ cli = "exited"
    /\ input_path = "dir"
    /\ failed_list # <<>>
    /\ exit_status = 0


-----------------------------------------------------------------------------
(* Termination of Pass B, checked under SpecRepairLive *)

\* the sweep just made changed nothing: the while loop is left
LoopLeft == NextPass = "B" /\ ~changed

\* C20: for every row, whatever its number of columns and its cells (cells
\* with several '(' characters and empty cells included), every call of
\* clean_dataframe_parentheses eventually performs a sweep that changes
\* nothing, so the call returns.
C20_PassBTerminates == (NextPass = "B") ~> LoopLeft

\* a cell of three '(' next to an empty cell: three sweeps each move one '('
\* to the right, the fourth changes nothing
C20_Witness ==
    /\ LoopLeft
    /\ done = 0
    /\ input = <<<<"(", "(", "(">>, NaN>>
    /\ sweeps = 4

-----------------------------------------------------------------------------
(* Order of the two passes on a repaired table                               *)

\* the tables of the run, collected or delivered
RunTables == {vtables[i] : i \in DOMAIN vtables} \cup {tables[i] : i \in DOMAIN tables}

Repaired(t) == t.passes # <<>>

PassNames(t) == [i \in DOMAIN t.passes |-> t.passes[i].pass]

\* C21 as the claim words it: on every repaired table the single-cell pass
\* (A) is called first and the cascade pass (B) second.
C21_AsStated ==
    \A t \in RunTables : Repaired(t) => PassNames(t) = DocumentOrder

\* C21: on every table that is repaired the two passes are called in the
\* order Pass B (clean_dataframe_parentheses, the cross-cell cascade repair)
\* first and Pass A (clean_malformed_parentheses, the single-cell
\* normalization) second: no call of Pass A comes before a call of Pass B,
\* and each pass is called once.
C21_CascadeFirst ==
    \A t \in RunTables :
        Repaired(t) =>
            /\ \A i, j \in DOMAIN t.passes :
                  (t.passes[i].pass = "A" /\ t.passes[j].pass = "B") => j < i
            /\ \A n \in {"A", "B"} :
                  Cardinality({i \in DOMAIN t.passes : t.passes[i].pass = n}) = 1

\* a repaired table, neither pass having raised, has been delivered
C21_Witness ==
    /\ result = "path"
    /\ \E i \in DOMAIN tables :
          /\ Repaired(tables[i])
          /\ \A k \in DOMAIN tables[i].passes : ~tables[i].passes[k].raised

-----------------------------------------------------------------------------
(* Incremental saves of the vision loop                                      *)

\* the pages after which save_excel_incremental was called
SavedAfter == {saves[i] : i \in DOMAIN saves}

\* C22: with save_every = N > 0, the vision loop saves after a page exactly
\* when the number of pages gone through so far is a positive multiple of N.
C22_SaveEveryNPages ==
    (pc = "vision_loop" /\ save_every > 0) =>
        \A p \in 1..page_num : (p \in SavedAfter) <=> (p % save_every = 0)

-----------------------------------------------------------------------------
(* A repair pass that raises                                                 *)

\* the row as call k found it
BeforeCall(k) == IF k = 1 THEN input ELSE snaps[k - 1]

\* C23: a table on which a repair pass raised keeps the cells it had when
\* that pass started: the call that raised has changed no cell of it.
C23_NoPartialRepair ==
    \A k \in warned : k <= Len(snaps) => snaps[k] = BeforeCall(k)

-----------------------------------------------------------------------------
(* The statistics of a completed report, checked under SpecValidation        *)

PdfKeys == Keys(extract_numbers_from_text(pdf_text))

TableKeys == Keys(extract_numbers_from_dataframe(table_cells))

\* one element for every occurrence of a value that both sides can pair up
PairedOccurrences ==
    {p \in (ValuesOf(PdfKeys) \cup ValuesOf(TableKeys)) \X (1..Len(PdfKeys)) :
        p[2] <= CountOf(PdfKeys, p[1]) /\ p[2] <= CountOf(TableKeys, p[1])}

\* C24 as the claim words it: accuracy_percent is the quotient matches /
\* total_pdf_numbers x 100 itself (here in hundredths of a percent).
C24_AsStated ==
    (report.status = "completed" /\ report.total_pdf_numbers > 0) =>
        report.accuracy_percent * report.total_pdf_numbers = report.matches * 10000

\* C24: in every completed report matches is the sum, over the distinct
\* normalized values, of min(count in source, count in tables), and
\* accuracy_percent is matches / total_pdf_numbers x 100 rounded to two
\* decimal places, or 0 when the source text held no numbers.
C24_MatchesAndAccuracy ==
    report.status = "completed" =>
        /\ report.total_pdf_numbers = Len(PdfKeys)
        /\ report.matches = Cardinality(PairedOccurrences)
        /\ IF report.total_pdf_numbers = 0
           THEN report.accuracy_percent = 0
           ELSE LET exact == report.matches * 10000
                    shown == report.accuracy_percent * report.total_pdf_numbers
                IN /\ 2 * (shown - exact) <= report.total_pdf_numbers
                   /\ 2 * (exact - shown) <= report.total_pdf_numbers

\* two of the three occurrences in the source are matched: 66.67 percent
C24_Witness ==
    /\ report.status = "completed"
    /\ pdf_text = RepeatedText
    /\ report.total_pdf_numbers = 3
    /\ report.matches = 2
    /\ report.accuracy_percent = 6667

\* a source without numbers: accuracy 0
C24_NoNumbersWitness ==
    /\ report.status = "completed"
    /\ report.total_pdf_numbers = 0
    /\ report.total_table_numbers > 0
    /\ report.accuracy_percent = 0

-----------------------------------------------------------------------------
(* The rows inside a roll-up range, checked under SpecRollup                 *)

-----------------------------------------------------------------------------
(* The cascade of Pass B, checked under SpecCascade                          *)

\* ["X", "(n1)", ..., "(n(k-1))", "(nk"]
CascadeResolved(x, ns) ==
    <<x>> \o [i \in 1..(Len(ns) - 1) |-> <<"(">> \o ns[i] \o <<")">>]
          \o <<<<"(">> \o ns[Len(ns)]>>

\* C26: Pass B turns every row ["X (", "n1)(", ..., "n(k-1))(", "nk"] with
\* numeric n1..nk into ["X", "(n1)", ..., "(n(k-1))", "(nk"]: every number
\* stays in its own column and only the parentheses move.
C26_CascadeResolved ==
    done >= 1 =>
        \A x \in CascadeLabels, sep \in {<<>>, <<" ">>}, k \in 1..MaxCascade :
            \A ns \in [1..k -> CascadeNumbers] :
                input = CascadeRow(x, sep, ns) => snaps[1] = CascadeResolved(x, ns)

\* the example of the docstring: ["10,947 (", "3,094)(", "578)(", "173"]
C26_Witness ==
    /\ done = 1
    /\ input = CascadeRow(<<"1", "0", ",", "9", "4", "7">>, <<" ">>,
                          <<<<"3", ",", "0", "9", "4">>, <<"5", "7", "8">>, <<"1", "7", "3">>>>)
    /\ cells = << <<"1", "0", ",", "9", "4", "7">>, <<"(", "3", ",", "0", "9", "4", ")">>,
                  <<"(", "5", "7", "8", ")">>, <<"(", "1", "7", "3">> >>

-----------------------------------------------------------------------------
(* The code fence of a reply, checked under SpecFence                        *)

IsDataLine(l) == l \notin FenceLines /\ l # BlankLine

\* the lines of a text that are neither fence lines nor blank, in order
DataOf(text) == SelectSeq(text, IsDataLine)

\* C27: when the reply starts with a code fence, every line of it that is
\* not a fence line is still in the CSV text handed to the parser, also when
\* the closing fence is missing.
C27_DataLinesKept ==
    (fence = "cleaned" /\ StartsWithFence(StripText(reply)))
        => DataOf(csv_content) = DataOf(reply)

-----------------------------------------------------------------------------
(* Conservation in a completed report, checked under SpecValidation          *)

\* the sum of pdf_count - table_count over a discrepancy list
Shortfall(list) ==
    LET F[i \in 0..Len(list)] ==
            IF i = 0 THEN 0 ELSE F[i - 1] + (list[i].pdf_count - list[i].table_count)
    IN F[Len(list)]

NumbersIn(list) == {list[i].number : i \in 1..Len(list)}

SameMultiset ==
    \A v \in ValuesOf(PdfKeys) \cup ValuesOf(TableKeys) :
        CountOf(PdfKeys, v) = CountOf(TableKeys, v)

\* C28: in every completed report total_pdf_numbers = matches + the sum of
\* (pdf_count - table_count) over missing_in_tables, total_table_numbers =
\* matches + the sum of (table_count - pdf_count) over extra_in_tables, no
\* value is in both lists, and both lists are empty exactly when the source
\* and the tables hold the same multiset of values.
C28_Conservation ==
    report.status = "completed" =>
        /\ report.total_pdf_numbers = report.matches + Shortfall(report.missing_in_tables)
        /\ report.total_table_numbers = report.matches - Shortfall(report.extra_in_tables)
        /\ NumbersIn(report.missing_in_tables) \cap NumbersIn(report.extra_in_tables) = {}
        /\ (report.missing_in_tables = <<>> /\ report.extra_in_tables = <<>>) <=> SameMultiset

\* a report with matches and with entries in both lists: the source holds 5
\* three times, the tables hold it twice and hold -5 besides
C28_Witness ==
    /\ report.status = "completed"
    /\ pdf_text = RepeatedText
    /\ report.matches = 2
    /\ Len(report.missing_in_tables) = 1
    /\ Len(report.extra_in_tables) = 1

-----------------------------------------------------------------------------
(* The two lists a batch returns, checked under Spec                         *)

Members(list) == {list[k] : k \in DOMAIN list}

\* the files whose conversion ended with one of the results in R
FilesWith(R) == {i \in DOMAIN outcomes : outcomes[i] \in R}

\* C29: after batch_convert_directory returns, each discovered file was
\* converted exactly once, the success and the failed list are disjoint, a
\* file is in failed exactly when its conversion raised and in success
\* exactly when it returned an output path, and a file whose conversion found
\* no tables is in neither list.
C29_BatchLists ==
    batch = "returned" =>
        /\ DOMAIN outcomes = 1..nFiles
        /\ Members(success_list) \cap Members(failed_list) = {}
        /\ Members(failed_list) = FilesWith(Exceptions)
        /\ Members(success_list) = FilesWith({"path"})
        /\ Len(success_list) = Cardinality(Members(success_list))
        /\ Len(failed_list) = Cardinality(Members(failed_list))
        /\ FilesWith({"None"}) \cap (Members(success_list) \cup Members(failed_list)) = {}
        /\ FilesWith({"None", "path"} \cup Exceptions) = 1..nFiles

\* a batch of two files has returned: the first held no tables, the second
\* was converted
C29_Witness ==
    /\ batch = "returned"
    /\ nFiles = 2
    /\ outcomes = <<"None", "path">>
    /\ success_list = <<2>>
    /\ failed_list = <<>>

-----------------------------------------------------------------------------
(* A table without a Row_Type column, checked under SpecRollup               *)

\* C30: for a table without a Row_Type column, whose roll-up rows are
\* inferred from the keywords in their labels, range detection finds no
\* DETAIL row in either direction, and no SUM formula is written for any
\* roll-up row of the table.
C30_NoRowTypeNoFormula ==
    ~HasColumn("Row_Type") =>
        /\ formulas = {}
        /\ \A k \in 1..Len(ranges) :
              ranges[k].start = 0 /\ ranges[k].end = 0 /\ ~ranges[k].forward

\* a table with the columns Category and Amount: the row labelled
\* "Total Income" that follows the row "Rent" was found to be a roll-up row,
\* Amount was found to be numeric, and the work is done without a formula
C30_Witness ==
    /\ rollup_step = "written"
    /\ ~HasColumn("Row_Type")
    /\ labels = <<"Rent", "Total Income">>
    /\ rollup_rows = <<2>>
    /\ numeric_cols # {}
    /\ Len(ranges) = 1
    /\ formulas = {}

=============================================================================
